---- MODULE Spec2Model ----
(***************************************************************************)
(* The campaign ledger of sadaqa-bot (src/bot.py): the per-day iftar       *)
(* table, the water batch counters in the kv table, the Id counter, the    *)
(* ZF list and the in-memory PENDING map, driven by the handlers that      *)
(* credit them.                                                            *)
(*                                                                         *)
(* Every handler is an asyncio task.  A task runs without interruption     *)
(* between two awaits, so one action of the model is one awaited storage   *)
(* or network call together with the synchronous code that follows it up   *)
(* to the next await.  Each kv_get / kv_set / iftar_get / UPDATE opens its *)
(* own connection and commits on its own, so each is one atomic step and   *)
(* other tasks may run between any two of them.                            *)
(*                                                                         *)
(* The kv table stores text; kv_set_int writes str(int(v)) and kv_get_int  *)
(* reads int(float(s)).  For the integers of the model (far below 2^53)    *)
(* that round trip returns the integer written, so kv holds integers.      *)
(*                                                                         *)
(* Rows of iftar_days are created on first use by ensure_iftar_day with    *)
(* the default target, raised 0 and is_closed 0, and every read or write   *)
(* of a row is preceded by ensure_iftar_day; a row that does not exist yet *)
(* is therefore held as the default row.                                   *)
(***************************************************************************)
EXTENDS Integers, Sequences, FiniteSets, TLC

\* ------------------------------------------------------------------------
\* Program constants
\* ------------------------------------------------------------------------

\* The last day of the iftar campaign (iftar_campaign_day, the autoclose loop).
LastDay == 30

\* IFTAR_TARGET_PORTIONS and WATER_TARGET_EUR of the deployment (read from
\* the environment at start-up; the model runs a deployment with small ones).
DEFAULT_IFTAR_TARGET_PORTIONS == 2
DEFAULT_WATER_TARGET_EUR == 3

ADMIN_ID == 1

\* ZF_GROUP_ID: no group is configured, the ZF list is posted to the admin.
ZF_GROUP_ID == 0

\* zf_add_entry keeps at most this many characters of a label.
LabelMax == 60

\* ZF_KG_PER_PERSON of the deployment: the rice per person, in kg.
DEFAULT_ZF_KG_PER_PERSON == 3

\* EUR_TO_STARS, IFTAR_PORTION_EUR and ZF_EUR_PER_PERSON of the deployment:
\* the Stars for one EUR and the prices of a portion and of a person, in EUR
\* (prices are held in whole EUR).
DEFAULT_EUR_TO_STARS == 2
DEFAULT_IFTAR_PORTION_EUR == 1
DEFAULT_ZF_EUR_PER_PERSON == 1

\* ------------------------------------------------------------------------
\* Bounds of the model
\* ------------------------------------------------------------------------

\* The bot is first started DaysBefore days before the last day.
DaysBefore == 4
\* The largest amount of one credit.
MaxAmount == 4
\* The most that is credited in one run, over all campaigns.
MaxCredited == 6
\* The largest target the admin sets.
MaxTarget == 2
\* The most that is credited in one run of concurrent handlers.
ConcCredited == 3
\* The most that is credited in one run with target changes and rollovers.
LedgerCredited == 2

\* The largest amount below zero the admin types after /add_.
MaxDebit == 1
\* The most that is credited in one run that checks termination.
TermCredited == 4
\* The most that is credited in one run over all four campaigns.
IndepCredited == 4
\* The last water batch that is reserved in one run.
MaxReserved == 3
\* The most that is credited in one run of self-reports.
RetryCredited == 3
\* The most people entered in the ZF tally in one run.
TallyPeople == 3
\* The largest rate or price the admin sets.
MaxRate == 2
\* The largest value set and the most credited in one run of the admin and
\* a user side by side.
AccessValue == 1
AccessCredited == 1

FirstDay == LastDay - DaysBefore
Days == FirstDay..LastDay
Amounts == 1..MaxAmount
SignedAmounts == (0 - MaxDebit)..MaxAmount

Tasks == {1, 2}
Users == {ADMIN_ID, 2}

VARIABLES
    iftar_days,   \* table iftar_days: day -> [target, raised, closed]
    kv,           \* table kv (the integer keys of the ledger)
    zf_entries,   \* table zf_entries, in id order
    PENDING,      \* PENDING: uid -> pending intent, or NoPending
    today,        \* today_local(), as the Ramadan day number of the date
    tasks,        \* the handler tasks in flight, with their local variables
    credited,     \* history: the sum of the amounts credited, per campaign
    closures,     \* history: closure notifications sent, per cycle; rollover
                  \* transfers applied, per date
    intents       \* history: credits applied for the latest intent of a user

vars == <<iftar_days, kv, zf_entries, PENDING, today, tasks, credited, closures, intents>>

\* ------------------------------------------------------------------------
\* Time helpers
\* ------------------------------------------------------------------------

\* get_ramadan_day: max(1, days since RAMADAN_START + 1).
get_ramadan_day == IF today < 1 THEN 1 ELSE today

\* iftar_campaign_day: always for tomorrow, capped at day 30.
iftar_campaign_day == IF get_ramadan_day + 1 > LastDay THEN LastDay ELSE get_ramadan_day + 1

\* ------------------------------------------------------------------------
\* State
\* ------------------------------------------------------------------------

\* An admin test that lets everyone through.
is_admin_any(uid) == TRUE

\* is_admin
is_admin(uid) == uid = ADMIN_ID

\* ensure_iftar_day: the row inserted for a day that has none.
DefaultRow == [target |-> DEFAULT_IFTAR_TARGET_PORTIONS, raised |-> 0, closed |-> 0]

NoPending == [type |-> "none", day |-> 0, n |-> 0, key |-> "none"]

\* The local variables of a handler task that is not running.  n_closed,
\* fresh, closed0, applied, replay and noted are history fields: the closures
\* this call has made, whether every next day it reached was empty and open,
\* is_closed as first read, the credits applied for the event being handled,
\* whether the event is a redelivery, whether the admin was notified, whether
\* what a reader holds was read between two writes of a credit.
IdleTask ==
    [pc |-> "idle", h |-> "none", uid |-> 0, camp |-> "none", raw |-> "none",
     st |-> "none", key |-> "none", day |-> 0, amt |-> 0, new_raised |-> 0,
     target |-> 0, raised |-> 0, closed |-> 0, batch |-> 0, overflow |-> 0,
     cur_day |-> 0, next_day |-> 0, nr |-> 0,
     n_closed |-> 0, fresh |-> TRUE, closed0 |-> 0, applied |-> 0, replay |-> FALSE,
     noted |-> FALSE, mid |-> FALSE,
     payload |-> [typ |-> "none", day |-> 0, n |-> 0]]

\* db_init: the kv rows of the ledger and the first campaign day's row.
Init ==
    /\ iftar_days = [d \in Days |-> DefaultRow]
    /\ kv = [water_batch |-> 1,
             water_target_eur |-> DEFAULT_WATER_TARGET_EUR,
             water_raised_eur |-> 0,
             id_raised_eur |-> 0,
             last_rollover_date |-> 0,
             eur_to_stars |-> DEFAULT_EUR_TO_STARS,
             iftar_portion_eur |-> DEFAULT_IFTAR_PORTION_EUR,
             zf_eur_per_person |-> DEFAULT_ZF_EUR_PER_PERSON,
             ind_iftar_next_day |-> 0,
             ind_water_next_batch |-> 1]
    /\ zf_entries = <<>>
    /\ PENDING = [u \in Users |-> NoPending]
    /\ today = FirstDay
    /\ tasks = [t \in Tasks |-> IdleTask]
    /\ credited = [iftar |-> 0, water |-> 0, id |-> 0, zf |-> 0]
    /\ closures = [iftar |-> [d \in Days |-> 0], water |-> <<>>,
                   moves |-> [d \in Days |-> 0]]
    /\ intents = [u \in Users |-> 0]

TotalCredited == credited.iftar + credited.water + credited.id + credited.zf

\* No handler is between its first and its last step.
Quiet == \A t \in Tasks : tasks[t].pc \in {"idle", "done", "failed"}

SetTask(t, r) == tasks' = [tasks EXCEPT ![t] = r]

\* One more closure notification for water batch b.
WaterClosureNoted(log, b) ==
    IF b <= Len(log) THEN [log EXCEPT ![b] = @ + 1]
    ELSE log \o [i \in 1..(b - Len(log)) |-> IF i = b - Len(log) THEN 1 ELSE 0]

\* ------------------------------------------------------------------------
\* iftar_add_with_autoclose(day, portions)
\* ------------------------------------------------------------------------

\* An overflow that is lost.
Overflow_none(raised, target) == 0

\* overflow = raised - target (both autoclose loops).
Overflow(raised, target) == raised - target

\* A next day that never moves on.
NextDay_stay(cur_day) == cur_day

\* A next day that is the day before.
NextDay_back(cur_day) == IF cur_day > FirstDay THEN cur_day - 1 ELSE cur_day

\* next_day = min(30, cur_day + 1).
NextDay(cur_day) == IF cur_day + 1 < LastDay THEN cur_day + 1 ELSE LastDay

\* A carry that forgets the overflow.
CarryInto_dropped(nr, overflow) == nr

\* The raised amount written to the next day: what it has plus the overflow.
CarryInto(nr, overflow) == nr + overflow

\* The call: the arguments are bound, nothing has run yet.
CallIftarAdd(s, day, portions) ==
    [s EXCEPT !.pc = "ia_get", !.camp = "iftar", !.day = day, !.amt = portions]

\* The function returns to the handler that called it.
Return(s) == [s EXCEPT !.pc = "h_after"]

\* target, raised, closed = await iftar_get(day); new_raised = raised + portions
IftarAddGet(t) ==
    LET s == tasks[t]
        row == iftar_days[s.day]
    IN /\ s.pc = "ia_get"
       /\ SetTask(t, [s EXCEPT !.pc = "ia_put",
                               !.target = row.target, !.raised = row.raised,
                               !.closed = row.closed, !.closed0 = row.closed,
                               !.new_raised = row.raised + s.amt])
       /\ UNCHANGED <<iftar_days, kv, zf_entries, PENDING, today, credited, closures, intents>>

\* UPDATE iftar_days SET raised_portions = new_raised WHERE day = day
IftarAddPut(t) ==
    LET s == tasks[t]
    IN /\ s.pc = "ia_put"
       /\ iftar_days' = [iftar_days EXCEPT ![s.day].raised = s.new_raised]
       /\ SetTask(t, [s EXCEPT !.pc = "ia_loop", !.cur_day = s.day, !.overflow = 0,
                               !.applied = @ + 1])
       /\ intents' = IF s.h = "router" THEN [intents EXCEPT ![s.uid] = @ + 1] ELSE intents
       /\ UNCHANGED <<kv, zf_entries, PENDING, today, credited, closures>>

\* Loop head: target, raised, closed = await iftar_get(cur_day);
\* if raised < target: break; overflow = raised - target
IftarLoopGet(t) ==
    LET s == tasks[t]
        row == iftar_days[s.cur_day]
        got == [s EXCEPT !.target = row.target, !.raised = row.raised, !.closed = row.closed]
    IN /\ s.pc = "ia_loop"
       /\ IF row.raised < row.target
          THEN SetTask(t, Return(got))
          ELSE SetTask(t, [got EXCEPT !.pc = "ia_close",
                                      !.overflow = Overflow(row.raised, row.target)])
       /\ UNCHANGED <<iftar_days, kv, zf_entries, PENDING, today, credited, closures, intents>>

\* UPDATE iftar_days SET raised_portions = target, is_closed = 1 WHERE day = cur_day
IftarClose(t) ==
    LET s == tasks[t]
    IN /\ s.pc = "ia_close"
       /\ iftar_days' = [iftar_days EXCEPT ![s.cur_day].raised = s.target,
                                           ![s.cur_day].closed = 1]
       /\ SetTask(t, [s EXCEPT !.pc = "ia_next", !.next_day = NextDay(s.cur_day)])
       /\ UNCHANGED <<kv, zf_entries, PENDING, today, credited, closures, intents>>

\* nt, nr, nc = await iftar_get(next_day)
IftarNextGet(t) ==
    LET s == tasks[t]
        row == iftar_days[s.next_day]
    IN /\ s.pc = "ia_next"
       /\ SetTask(t, [s EXCEPT !.pc = "ia_carry", !.nr = row.raised,
                               !.fresh = @ /\ row.raised = 0 /\ row.closed = 0])
       /\ UNCHANGED <<iftar_days, kv, zf_entries, PENDING, today, credited, closures, intents>>

\* UPDATE iftar_days SET raised_portions = nr + overflow, is_closed = 0 WHERE day = next_day
IftarCarry(t) ==
    LET s == tasks[t]
    IN /\ s.pc = "ia_carry"
       /\ iftar_days' = [iftar_days EXCEPT ![s.next_day].raised = CarryInto(s.nr, s.overflow),
                                           ![s.next_day].closed = 0]
       /\ SetTask(t, [s EXCEPT !.pc = "ia_note"])
       /\ UNCHANGED <<kv, zf_entries, PENDING, today, credited, closures, intents>>

\* The closure notification (a failure to send is swallowed), then
\* cur_day = next_day; if cur_day >= 30: break; if overflow <= 0: break
IftarNote(t) ==
    LET s == tasks[t]
        moved == [s EXCEPT !.cur_day = s.next_day, !.n_closed = @ + 1]
    IN /\ s.pc = "ia_note"
       /\ closures' = [closures EXCEPT !.iftar[s.cur_day] = @ + 1]
       /\ IF s.next_day >= LastDay \/ s.overflow <= 0
          THEN SetTask(t, Return(moved))
          ELSE SetTask(t, [moved EXCEPT !.pc = "ia_loop"])
       /\ UNCHANGED <<iftar_days, kv, zf_entries, PENDING, today, credited, intents>>

iftar_add_with_autoclose(t) ==
    \/ IftarAddGet(t)
    \/ IftarAddPut(t)
    \/ IftarLoopGet(t)
    \/ IftarClose(t)
    \/ IftarNextGet(t)
    \/ IftarCarry(t)
    \/ IftarNote(t)

\* ------------------------------------------------------------------------
\* water_add_with_autoclose(eur)
\* ------------------------------------------------------------------------

CallWaterAdd(s, eur) == [s EXCEPT !.pc = "wa_batch", !.camp = "water", !.amt = eur]

\* while raised >= target and target > 0
WaterLoopCond(raised, target) == raised >= target /\ target > 0

\* batch = await kv_get_int("water_batch", 1)
WaterGetBatch(t) ==
    LET s == tasks[t]
    IN /\ s.pc = "wa_batch"
       /\ SetTask(t, [s EXCEPT !.pc = "wa_target", !.batch = kv.water_batch])
       /\ UNCHANGED <<iftar_days, kv, zf_entries, PENDING, today, credited, closures, intents>>

\* target = await kv_get_int("water_target_eur", DEFAULT_WATER_TARGET_EUR)
WaterGetTarget(t) ==
    LET s == tasks[t]
    IN /\ s.pc = "wa_target"
       /\ SetTask(t, [s EXCEPT !.pc = "wa_raised", !.target = kv.water_target_eur])
       /\ UNCHANGED <<iftar_days, kv, zf_entries, PENDING, today, credited, closures, intents>>

\* raised = await kv_get_int("water_raised_eur", 0); raised += eur; overflow = 0
\* (new_raised keeps the first value of raised; the code has no name for it)
WaterGetRaised(t) ==
    LET s == tasks[t]
        sum == kv.water_raised_eur + s.amt
    IN /\ s.pc = "wa_raised"
       /\ SetTask(t, [s EXCEPT !.pc = IF WaterLoopCond(sum, s.target) THEN "wa_note" ELSE "wa_set_batch",
                               !.raised = sum, !.new_raised = sum, !.overflow = 0])
       /\ UNCHANGED <<iftar_days, kv, zf_entries, PENDING, today, credited, closures, intents>>

\* One turn of the loop: overflow = raised - target; the closure notification
\* (a failure to send is swallowed); batch += 1; raised = overflow; overflow = 0
WaterNote(t) ==
    LET s == tasks[t]
        left == Overflow(s.raised, s.target)
    IN /\ s.pc = "wa_note"
       /\ closures' = [closures EXCEPT !.water = WaterClosureNoted(@, s.batch)]
       /\ SetTask(t, [s EXCEPT !.pc = IF WaterLoopCond(left, s.target) THEN "wa_note" ELSE "wa_set_batch",
                               !.batch = @ + 1, !.raised = left, !.overflow = 0,
                               !.n_closed = @ + 1])
       /\ UNCHANGED <<iftar_days, kv, zf_entries, PENDING, today, credited, intents>>

\* await kv_set_int("water_batch", batch)
WaterSetBatch(t) ==
    LET s == tasks[t]
    IN /\ s.pc = "wa_set_batch"
       /\ kv' = [kv EXCEPT !.water_batch = s.batch]
       /\ SetTask(t, [s EXCEPT !.pc = "wa_set_raised"])
       /\ UNCHANGED <<iftar_days, zf_entries, PENDING, today, credited, closures, intents>>

\* A water credit that counts for the Id campaign as well.
WaterSetRaised_both(t) ==
    LET s == tasks[t]
    IN /\ s.pc = "wa_set_raised"
       /\ kv' = [kv EXCEPT !.water_raised_eur = s.raised, !.id_raised_eur = @ + s.amt]
       /\ SetTask(t, [s EXCEPT !.pc = "h_after", !.applied = @ + 1])
       /\ intents' = IF s.h = "router" THEN [intents EXCEPT ![s.uid] = @ + 1] ELSE intents
       /\ UNCHANGED <<iftar_days, zf_entries, PENDING, today, credited, closures>>

\* await kv_set_int("water_raised_eur", raised); return batch, raised
WaterSetRaised(t) ==
    LET s == tasks[t]
    IN /\ s.pc = "wa_set_raised"
       /\ kv' = [kv EXCEPT !.water_raised_eur = s.raised]
       /\ SetTask(t, Return([s EXCEPT !.applied = @ + 1]))
       /\ intents' = IF s.h = "router" THEN [intents EXCEPT ![s.uid] = @ + 1] ELSE intents
       /\ UNCHANGED <<iftar_days, zf_entries, PENDING, today, credited, closures>>

water_add_with_autoclose(t) ==
    \/ WaterGetBatch(t)
    \/ WaterGetTarget(t)
    \/ WaterGetRaised(t)
    \/ WaterNote(t)
    \/ WaterSetBatch(t)
    \/ WaterSetRaised(t)

\* ------------------------------------------------------------------------
\* kv_inc_int("id_raised_eur", delta)
\* ------------------------------------------------------------------------

CallKvInc(s, delta) == [s EXCEPT !.pc = "ki_get", !.camp = "id", !.amt = delta]

\* v = await kv_get_int(key, 0)
KvIncGet(t) ==
    LET s == tasks[t]
    IN /\ s.pc = "ki_get"
       /\ SetTask(t, [s EXCEPT !.pc = "ki_set", !.raised = kv.id_raised_eur])
       /\ UNCHANGED <<iftar_days, kv, zf_entries, PENDING, today, credited, closures, intents>>

\* await kv_set_int(key, v + int(delta))
KvIncSet(t) ==
    LET s == tasks[t]
    IN /\ s.pc = "ki_set"
       /\ kv' = [kv EXCEPT !.id_raised_eur = s.raised + s.amt]
       /\ SetTask(t, Return([s EXCEPT !.applied = @ + 1]))
       /\ intents' = IF s.h = "router" THEN [intents EXCEPT ![s.uid] = @ + 1] ELSE intents
       /\ UNCHANGED <<iftar_days, zf_entries, PENDING, today, credited, closures>>

kv_inc_int(t) == KvIncGet(t) \/ KvIncSet(t)

\* ------------------------------------------------------------------------
\* Handlers that credit the ledger directly
\* ------------------------------------------------------------------------

\* The days an iftar invoice or intent may name: it is made for the campaign
\* day of the moment it was made, so for a campaign day up to the current one.
CampaignDaysSoFar == (FirstDay + 1)..iftar_campaign_day

\* The invoice payloads the bot issues and successful_payment credits:
\* iftar:day:D:portions:N, water:eur:N and id:eur:N.
StarsPayloads ==
    [typ : {"iftar"}, day : CampaignDaysSoFar, n : Amounts]
        \cup [typ : {"water", "id"}, day : {0}, n : Amounts]

\* The call the handler makes for a campaign.
CallCredit(s, camp, day, n) ==
    CASE camp = "iftar" -> CallIftarAdd(s, day, n)
      [] camp = "water" -> CallWaterAdd(s, n)
      [] camp = "id" -> CallKvInc(s, n)

Credit(camp, n) ==
    /\ TotalCredited + n <= MaxCredited
    /\ credited' = [credited EXCEPT ![camp] = @ + n]

\* What would be credited were the Stars paid turned back into EUR at the
\* rate of the moment (the invoice having been made at the default rate).
Settle_reconverted(p, settings) ==
    [camp |-> p.typ, day |-> p.day,
     amt |-> (p.n * DEFAULT_EUR_TO_STARS) \div settings.eur_to_stars]

\* successful_payment, what it credits: typ = parts[0], day = int(parts[2]),
\* portions = int(parts[4]) or eur = int(parts[2]), all of the payload;
\* sp.total_amount and the rows of kv (settings) are not used.
Settle(p, settings) == [camp |-> p.typ, day |-> p.day, amt |-> p.n]

\* successful_payment: the payload is split and the credit is called.
StartPayment(t, p) ==
    /\ tasks[t].pc = "idle"
    /\ Credit(p.typ, p.n)
    /\ LET c == Settle(p, kv)
       IN SetTask(t, CallCredit([IdleTask EXCEPT !.h = "stars", !.uid = 2, !.payload = p],
                                c.camp, c.day, c.amt))
    /\ UNCHANGED <<iftar_days, kv, zf_entries, PENDING, today, closures, intents>>

\* Payloads successful_payment cannot use: of a known type with a field
\* missing ("iftar:day:27", "water") or not an integer ("water:eur:x"), and
\* of a type it has no branch for.
BadPayloads ==
    {[typ |-> typ, fault |-> f] : typ \in {"iftar", "water", "id"}, f \in {"missing", "nonint"}}
        \cup {[typ |-> "other", fault |-> "unknown"]}

\* successful_payment with such a payload: int(parts[i]) raises IndexError or
\* ValueError before the credit is called and the except branch logs it, or
\* no branch is taken; either way the handler goes on to the "unhandled"
\* notification.
StartPaymentBad(t, p) ==
    /\ tasks[t].pc = "idle"
    /\ SetTask(t, [IdleTask EXCEPT !.h = "stars", !.uid = 2, !.raw = p.fault, !.pc = "h_after"])
    /\ UNCHANGED <<iftar_days, kv, zf_entries, PENDING, today, credited, closures, intents>>

\* The same successful_payment update is delivered once more: the handler
\* runs again on the same payload (it keeps no record of payments handled).
RedeliverPayment(t) ==
    LET s == tasks[t]
    IN /\ s.pc = "done"
       /\ s.h = "stars"
       /\ s.camp \in {"iftar", "water", "id"}
       /\ Credit(s.camp, s.amt)
       /\ SetTask(t, CallCredit([IdleTask EXCEPT !.h = "stars", !.uid = s.uid,
                                                 !.replay = TRUE, !.applied = s.applied],
                                s.camp, s.day, s.amt))
       /\ UNCHANGED <<iftar_days, kv, zf_entries, PENDING, today, closures, intents>>

\* successful_payment after the credit: the admin notification and the answer.
\* When send_admin_html raises, the except branch logs it and the handler
\* falls through to the "unhandled" notification; not sent stands for both
\* failing.  Neither touches the ledger.
PaymentNote(t, sent) ==
    LET s == tasks[t]
    IN /\ s.pc = "h_after"
       /\ s.h = "stars"
       /\ SetTask(t, [s EXCEPT !.pc = IF sent THEN "done" ELSE "failed", !.noted = sent])
       /\ UNCHANGED <<iftar_days, kv, zf_entries, PENDING, today, credited, closures, intents>>

\* cmd_add_iftar, cmd_add_water, cmd_add_id: admin only; the amount goes to
\* the current campaign day, the water batch or the Id counter.
StartCmdAdd(t, camp, n) ==
    /\ tasks[t].pc = "idle"
    /\ Credit(camp, n)
    /\ SetTask(t, CallCredit([IdleTask EXCEPT !.h = "cmd", !.uid = ADMIN_ID],
                             camp, IF camp = "iftar" THEN iftar_campaign_day ELSE 0, n))
    /\ UNCHANGED <<iftar_days, kv, zf_entries, PENDING, today, closures, intents>>

\* cmd_add_iftar, cmd_add_water, cmd_add_id, cmd_add_zf sent by a user who
\* is not the admin: the handler returns at once.
CmdRefused(t, u) ==
    /\ ~is_admin(u)
    /\ tasks[t].pc = "idle"
    /\ SetTask(t, [IdleTask EXCEPT !.h = "cmd", !.uid = u, !.pc = "done"])
    /\ UNCHANGED <<iftar_days, kv, zf_entries, PENDING, today, credited, closures, intents>>

\* await message.answer("OK")
CmdAnswer(t) ==
    LET s == tasks[t]
    IN /\ s.pc = "h_after"
       /\ s.h = "cmd"
       /\ SetTask(t, [s EXCEPT !.pc = "done"])
       /\ UNCHANGED <<iftar_days, kv, zf_entries, PENDING, today, credited, closures, intents>>

\* The handler task ends; its local variables go.
Finish(t) ==
    /\ tasks[t].pc \in {"done", "failed"}
    /\ SetTask(t, IdleTask)
    /\ UNCHANGED <<iftar_days, kv, zf_entries, PENDING, today, credited, closures, intents>>

\* The local date moves to the next day.
AdvanceDate ==
    /\ today < LastDay
    /\ today' = today + 1
    /\ UNCHANGED <<iftar_days, kv, zf_entries, PENDING, tasks, credited, closures, intents>>

AllIdle == \A t \in Tasks : tasks[t].pc = "idle"

\* ------------------------------------------------------------------------
\* Callbacks that leave a pending intent in PENDING
\* ------------------------------------------------------------------------

Pending(type, day, n, key) == [type |-> type, day |-> day, n |-> n, key |-> key]

\* PENDING[uid] = {...}: a new intent of the user, nothing credited for it yet.
SetPending(u, st) ==
    /\ PENDING' = [PENDING EXCEPT ![u] = st]
    /\ intents' = [intents EXCEPT ![u] = 0]

\* rem = max(0, target - raised)
Remaining(target, raised) == IF target - raised > 0 THEN target - raised ELSE 0

\* cb_quick: quick_close offers the remaining amount of the open cycle (and
\* nothing when there is none), quick_full the whole target.  camp is
\* LAST_CAMPAIGN[uid], the campaign the user opened last.
cb_quick(u, camp, data) ==
    LET row == iftar_days[iftar_campaign_day]
        target == IF camp = "iftar" THEN row.target ELSE kv.water_target_eur
        raised == IF camp = "iftar" THEN row.raised ELSE kv.water_raised_eur
        rem == Remaining(target, raised)
        type == IF camp = "iftar" THEN "mark_iftar_portions_fixed" ELSE "mark_water_eur_fixed"
        day == IF camp = "iftar" THEN iftar_campaign_day ELSE 0
    IN /\ camp \in {"iftar", "water"}
       /\ data \in {"quick_close", "quick_full"}
       /\ IF data = "quick_close"
          THEN rem > 0 /\ SetPending(u, Pending(type, day, rem, "none"))
          ELSE SetPending(u, Pending(type, day, target, "none"))
       /\ UNCHANGED <<iftar_days, kv, zf_entries, today, tasks, credited, closures>>

\* cb_mark_paid: the user will type the amount; iftar is for the campaign day.
cb_mark_paid(u, camp) ==
    /\ CASE camp = "iftar" -> SetPending(u, Pending("mark_iftar_portions", iftar_campaign_day, 0, "none"))
         [] camp = "water" -> SetPending(u, Pending("mark_water_eur", 0, 0, "none"))
         [] camp = "id" -> SetPending(u, Pending("id_wait_amount", 0, 0, "none"))
    /\ UNCHANGED <<iftar_days, kv, zf_entries, today, tasks, credited, closures>>

\* cb_id_mark
cb_id_mark(u) ==
    /\ SetPending(u, Pending("id_wait_amount", 0, 0, "none"))
    /\ UNCHANGED <<iftar_days, kv, zf_entries, today, tasks, credited, closures>>

\* cb_zf_mark
cb_zf_mark(u) ==
    /\ SetPending(u, Pending("zf_wait_code", 0, 0, "none"))
    /\ UNCHANGED <<iftar_days, kv, zf_entries, today, tasks, credited, closures>>

\* cb_admin, for the admin only: the adm_set_ buttons ask for a new value.
cb_admin(u, data) ==
    /\ is_admin(u)
    /\ CASE data = "adm_set_water_target" ->
                SetPending(u, Pending("admin_set_int", 0, 0, "water_target_eur"))
         [] data = "adm_set_iftar_target" ->
                SetPending(u, Pending("admin_set_iftar_target", 0, 0, "none"))
         [] data = "adm_set_rate" ->
                SetPending(u, Pending("admin_set_int", 0, 0, "eur_to_stars"))
         [] data = "adm_set_iftar_price" ->
                SetPending(u, Pending("admin_set_price", 0, 0, "iftar_portion_eur"))
         [] data = "adm_set_zf_price" ->
                SetPending(u, Pending("admin_set_price", 0, 0, "zf_eur_per_person"))
    /\ UNCHANGED <<iftar_days, kv, zf_entries, today, tasks, credited, closures>>

\* cb_admin when the user is not the admin: "no access" is answered.
cb_admin_refused(t, u) ==
    /\ ~is_admin(u)
    /\ tasks[t].pc = "idle"
    /\ SetTask(t, [IdleTask EXCEPT !.h = "cb_admin", !.uid = u, !.pc = "done"])
    /\ UNCHANGED <<iftar_days, kv, zf_entries, PENDING, today, credited, closures, intents>>

\* cb_admin, data manualadd:<campaign>: the admin is asked for the amount.
cb_manual_add(u, camp) ==
    /\ is_admin(u)
    /\ SetPending(u, Pending("admin_manual_add", 0, 0, camp))
    /\ UNCHANGED <<iftar_days, kv, zf_entries, today, tasks, credited, closures>>

\* ------------------------------------------------------------------------
\* pending_router: a text message of a user who has a pending intent
\* ------------------------------------------------------------------------

\* The texts a user sends, by what the router's tests make of them:
\* "ok" is in {ok, yes}, "cancel" is "0", "num" is the decimal text of n > 0,
\* "code" is a bank code ZFn, "label" is any other text of len characters.
Messages ==
    {[kind |-> "ok", n |-> 0, len |-> 2], [kind |-> "cancel", n |-> 0, len |-> 1],
     [kind |-> "label", n |-> 0, len |-> 1], [kind |-> "label", n |-> 0, len |-> 3]}
        \cup {[kind |-> "num", n |-> n, len |-> 1] : n \in Amounts}
        \cup {[kind |-> "code", n |-> n, len |-> 3] : n \in Amounts}

\* A variant that takes a number that is not above zero for 1.
ParsePositive_one(msg) == IF msg.kind = "num" THEN (IF msg.n > 0 THEN msg.n ELSE 1) ELSE 0

\* int(float(raw.replace(",", "."))) with the test val <= 0: the value when
\* the text is a number above 0, and 0 when it is none or not above 0.
ParsePositive(msg) == IF msg.kind = "num" /\ msg.n > 0 THEN msg.n ELSE 0

\* parse_zf_bank_code: n of ZFn for 0 < n <= 999, else None (0 here).
parse_zf_bank_code(msg) == IF msg.kind = "code" /\ msg.n > 0 /\ msg.n <= 999 THEN msg.n ELSE 0

FixedTypes == {"mark_iftar_portions_fixed", "mark_water_eur_fixed"}
AmountTypes == {"mark_iftar_portions", "mark_water_eur", "id_wait_amount"}

\* The campaign an intent type credits.
CampOf(type) ==
    CASE type \in {"mark_iftar_portions_fixed", "mark_iftar_portions"} -> "iftar"
      [] type \in {"mark_water_eur_fixed", "mark_water_eur"} -> "water"
      [] type = "id_wait_amount" -> "id"
      [] OTHER -> "none"

\* uid, st = PENDING.get(uid), raw: the handler's locals at its start.
RouterTask(u, msg) ==
    [IdleTask EXCEPT !.h = "router", !.uid = u, !.st = PENDING[u].type, !.raw = msg.kind]

\* The handler only answers the user and returns.
Answered(s) == [s EXCEPT !.pc = "done"]

\* Type mark_*_fixed: "0" cancels and drops the intent, anything but OK is
\* asked again, OK credits the amount the intent holds.
RouterFixed(t, u, msg) ==
    LET st == PENDING[u]
        s == RouterTask(u, msg)
    IN /\ tasks[t].pc = "idle"
       /\ st.type \in FixedTypes
       /\ CASE msg.kind = "cancel" ->
                 /\ PENDING' = [PENDING EXCEPT ![u] = NoPending]
                 /\ SetTask(t, Answered(s))
                 /\ UNCHANGED credited
            [] msg.kind = "ok" ->
                 /\ Credit(CampOf(st.type), st.n)
                 /\ SetTask(t, CallCredit(s, CampOf(st.type), st.day, st.n))
                 /\ UNCHANGED PENDING
            [] OTHER ->
                 /\ SetTask(t, Answered(s))
                 /\ UNCHANGED <<PENDING, credited>>
       /\ UNCHANGED <<iftar_days, kv, zf_entries, today, closures, intents>>

\* Types mark_iftar_portions, mark_water_eur, id_wait_amount: a number above
\* 0 is credited, anything else is asked again.
RouterAmount(t, u, msg) ==
    LET st == PENDING[u]
        s == RouterTask(u, msg)
        val == ParsePositive(msg)
    IN /\ tasks[t].pc = "idle"
       /\ st.type \in AmountTypes
       /\ IF val > 0
          THEN /\ Credit(CampOf(st.type), val)
               /\ SetTask(t, CallCredit(s, CampOf(st.type), st.day, val))
          ELSE /\ SetTask(t, Answered(s))
               /\ UNCHANGED credited
       /\ UNCHANGED <<iftar_days, kv, zf_entries, PENDING, today, closures, intents>>

\* The number texts of any sign: "-1", "0", "3".
SignedMessages == {[kind |-> "num", n |-> n, len |-> 1] : n \in SignedAmounts}

\* Type admin_manual_add, campaign iftar, water or id: a number above 0 is
\* credited to the current campaign day, the water batch or the Id counter,
\* anything else is asked again.
RouterManualAdd(t, u, msg) ==
    LET st == PENDING[u]
        s == RouterTask(u, msg)
        val == ParsePositive(msg)
    IN /\ tasks[t].pc = "idle"
       /\ st.type = "admin_manual_add"
       /\ st.key \in {"iftar", "water", "id"}
       /\ IF val > 0
          THEN /\ Credit(st.key, val)
               /\ SetTask(t, CallCredit(s, st.key, iftar_campaign_day, val))
          ELSE /\ SetTask(t, Answered(s))
               /\ UNCHANGED credited
       /\ UNCHANGED <<iftar_days, kv, zf_entries, PENDING, today, closures, intents>>

\* After the credit has returned: PENDING.pop(uid, None), then the admin
\* notification, which raises when it cannot be sent, then the answer.
RouterAfter(t, sent) ==
    LET s == tasks[t]
    IN /\ s.pc = "h_after"
       /\ s.h = "router"
       /\ PENDING' = [PENDING EXCEPT ![s.uid] = NoPending]
       /\ SetTask(t, [s EXCEPT !.pc = IF sent THEN "done" ELSE "failed", !.noted = sent])
       /\ UNCHANGED <<iftar_days, kv, zf_entries, today, credited, closures, intents>>

\* Type zf_wait_code: a bank code ZFn moves the intent on to zf_wait_label
\* with people = n; anything else is asked again.
RouterZfCode(t, u, msg) ==
    LET st == PENDING[u]
        s == RouterTask(u, msg)
        n == parse_zf_bank_code(msg)
    IN /\ tasks[t].pc = "idle"
       /\ st.type = "zf_wait_code"
       /\ PENDING' = IF n > 0 THEN [PENDING EXCEPT ![u] = Pending("zf_wait_label", 0, n, "none")]
                      ELSE PENDING
       /\ SetTask(t, Answered(s))
       /\ UNCHANGED <<iftar_days, kv, zf_entries, today, credited, closures, intents>>

\* Type zf_wait_label: a text of fewer than 2 characters is asked again, any
\* other is the label of the entry to add.
RouterZfLabel(t, u, msg) ==
    LET st == PENDING[u]
        s == RouterTask(u, msg)
    IN /\ tasks[t].pc = "idle"
       /\ st.type = "zf_wait_label"
       /\ IF msg.len < 2
          THEN /\ SetTask(t, Answered(s))
               /\ UNCHANGED credited
          ELSE /\ Credit("zf", st.n)
               /\ SetTask(t, [s EXCEPT !.pc = "zf_add", !.camp = "zf", !.amt = st.n,
                                       !.day = msg.len])
       /\ UNCHANGED <<iftar_days, kv, zf_entries, PENDING, today, closures, intents>>

\* zf_add_entry with the row put first instead of last.
zf_add_entry_first(t) ==
    LET s == tasks[t]
    IN /\ s.pc = "zf_add"
       /\ zf_entries' = <<[people |-> s.amt, label |-> IF s.day > LabelMax THEN LabelMax ELSE s.day]>>
                             \o zf_entries
       /\ SetTask(t, [s EXCEPT !.pc = "zf_note", !.applied = @ + 1])
       /\ intents' = [intents EXCEPT ![s.uid] = @ + 1]
       /\ UNCHANGED <<iftar_days, kv, PENDING, today, credited, closures>>

\* zf_add_entry with the row written over the last one.
zf_add_entry_over(t) ==
    LET s == tasks[t]
        row == [people |-> s.amt, label |-> IF s.day > LabelMax THEN LabelMax ELSE s.day]
    IN /\ s.pc = "zf_add"
       /\ zf_entries' = IF zf_entries = <<>> THEN <<row>>
                         ELSE [zf_entries EXCEPT ![Len(zf_entries)] = row]
       /\ SetTask(t, [s EXCEPT !.pc = "zf_note", !.applied = @ + 1])
       /\ intents' = [intents EXCEPT ![s.uid] = @ + 1]
       /\ UNCHANGED <<iftar_days, kv, PENDING, today, credited, closures>>

\* zf_add_entry: the label is cut to 60 characters and the row is inserted.
\* (The label is held by its length.)
LabelStored(len) == IF len > LabelMax THEN LabelMax ELSE len

zf_add_entry(t) ==
    LET s == tasks[t]
    IN /\ s.pc = "zf_add"
       /\ zf_entries' = Append(zf_entries, [people |-> s.amt, label |-> LabelStored(s.day)])
       /\ SetTask(t, [s EXCEPT !.pc = "zf_note", !.applied = @ + 1])
       /\ intents' = [intents EXCEPT ![s.uid] = @ + 1]
       /\ UNCHANGED <<iftar_days, kv, PENDING, today, credited, closures>>

\* await send_admin_html("ZF MARKED ..."): it raises when it cannot be sent
\* and the handler ends there.
ZfNote(t, sent) ==
    LET s == tasks[t]
    IN /\ s.pc = "zf_note"
       /\ s.st = "zf_wait_label"
       /\ SetTask(t, [s EXCEPT !.pc = IF sent THEN "zf_post" ELSE "failed", !.noted = sent])
       /\ UNCHANGED <<iftar_days, kv, zf_entries, PENDING, today, credited, closures, intents>>

\* await zf_post_update(), then PENDING.pop(uid, None) and the answer.  With a
\* ZF group the post goes through send_md, which swallows a failure; without
\* one it is bot.send_message to the admin, which raises.
ZfPost(t, sent) ==
    LET s == tasks[t]
        posted == sent \/ ZF_GROUP_ID # 0
    IN /\ s.pc = "zf_post"
       /\ PENDING' = IF posted THEN [PENDING EXCEPT ![s.uid] = NoPending] ELSE PENDING
       /\ SetTask(t, [s EXCEPT !.pc = IF posted THEN "done" ELSE "failed"])
       /\ UNCHANGED <<iftar_days, kv, zf_entries, today, credited, closures, intents>>

\* zf_totals: SELECT COALESCE(SUM(people), 0) FROM zf_entries, and the rice.
RECURSIVE SumPeople(_)
SumPeople(rows) == IF rows = <<>> THEN 0 ELSE rows[1].people + SumPeople(Tail(rows))

zf_totals ==
    LET total_people == SumPeople(zf_entries)
    IN <<total_people, total_people * DEFAULT_ZF_KG_PER_PERSON>>

\* zf_list_text_md: the rows by ascending id, numbered from 1, each with its
\* label and people, then the total of rice.  (Row i of zf_entries is the row
\* of id i: the ids are given in the order of the inserts.)
zf_list_text_md ==
    [lines |-> [i \in 1..Len(zf_entries) |->
                   [no |-> i, label |-> zf_entries[i].label, people |-> zf_entries[i].people]],
     total_kg |-> zf_totals[2]]

\* The texts for the ZF flow: bank codes, labels of 1, 2 and 61 characters,
\* and a number.
TallyMessages ==
    {[kind |-> "code", n |-> n, len |-> 3] : n \in Amounts}
        \cup {[kind |-> "label", n |-> 0, len |-> l] : l \in {1, 2, LabelMax + 1}}
        \cup {[kind |-> "num", n |-> 1, len |-> 1]}

\* What the admin types to add an entry, "<people> <label>": people is the
\* number of the digits, len the length of the label text and quotes how
\* many of its characters are double quotes at its ends (5 "" has len 2 and
\* quotes 2; 5 Umm has len 3 and quotes 0).
AdminEntries ==
    {[kind |-> "entry", n |-> n, len |-> lq[1], quotes |-> lq[2]] :
        n \in 0..MaxAmount, lq \in {<<2, 2>>, <<3, 0>>}}

\* label.strip().strip('"').strip(): the quotes at the ends go.
Unquoted(msg) == msg.len - msg.quotes

\* cmd_add_zf: admin only; people of 0 is refused, anything else is entered.
StartCmdAddZf(t, msg) ==
    /\ tasks[t].pc = "idle"
    /\ IF msg.n <= 0
       THEN /\ SetTask(t, Answered([IdleTask EXCEPT !.h = "cmd", !.uid = ADMIN_ID]))
            /\ UNCHANGED credited
       ELSE /\ Credit("zf", msg.n)
            /\ SetTask(t, [IdleTask EXCEPT !.h = "cmd", !.uid = ADMIN_ID, !.pc = "zf_add",
                                           !.camp = "zf", !.amt = msg.n, !.day = Unquoted(msg)])
    /\ UNCHANGED <<iftar_days, kv, zf_entries, PENDING, today, closures, intents>>

\* cmd_add_zf after zf_add_entry: await zf_post_update(), which raises when
\* the list cannot be sent to the admin, then the answer.
CmdZfPost(t, sent) ==
    LET s == tasks[t]
        posted == sent \/ ZF_GROUP_ID # 0
    IN /\ s.pc = "zf_note"
       /\ s.h = "cmd"
       /\ SetTask(t, [s EXCEPT !.pc = IF posted THEN "done" ELSE "failed"])
       /\ UNCHANGED <<iftar_days, kv, zf_entries, PENDING, today, credited, closures, intents>>

\* Type admin_manual_add, campaign zf: a text that is not "<digits> <label>"
\* and people of 0 are asked again, anything else is entered.
RouterManualAddZf(t, u, msg) ==
    LET st == PENDING[u]
        s == RouterTask(u, msg)
    IN /\ tasks[t].pc = "idle"
       /\ st.type = "admin_manual_add"
       /\ st.key = "zf"
       /\ IF msg.kind # "entry" \/ msg.n <= 0
          THEN /\ SetTask(t, Answered(s))
               /\ UNCHANGED credited
          ELSE /\ Credit("zf", msg.n)
               /\ SetTask(t, [s EXCEPT !.pc = "zf_add", !.camp = "zf", !.amt = msg.n,
                                       !.day = Unquoted(msg)])
       /\ UNCHANGED <<iftar_days, kv, zf_entries, PENDING, today, closures, intents>>

\* The manual addition after zf_add_entry: PENDING.pop(uid, None), then
\* await zf_post_update() and the answer.
ManualZfPost(t, sent) ==
    LET s == tasks[t]
        posted == sent \/ ZF_GROUP_ID # 0
    IN /\ s.pc = "zf_note"
       /\ s.st = "admin_manual_add"
       /\ PENDING' = [PENDING EXCEPT ![s.uid] = NoPending]
       /\ SetTask(t, [s EXCEPT !.pc = IF posted THEN "done" ELSE "failed"])
       /\ UNCHANGED <<iftar_days, kv, zf_entries, today, credited, closures, intents>>

\* cb_pay, method stars, campaign zf: the user is asked for how many people
\* they pay.
cb_pay_zf(u) ==
    /\ SetPending(u, Pending("zf_stars_people", 0, 0, "none"))
    /\ UNCHANGED <<iftar_days, kv, zf_entries, today, tasks, credited, closures>>

\* Type zf_stars_people: for a number above 0 the invoice with the payload
\* zf:people:N is sent and the intent is dropped; anything else is asked
\* again.
RouterZfStars(t, u, msg) ==
    LET st == PENDING[u]
        s == RouterTask(u, msg)
        people == ParsePositive(msg)
    IN /\ tasks[t].pc = "idle"
       /\ st.type = "zf_stars_people"
       /\ PENDING' = IF people > 0 THEN [PENDING EXCEPT ![u] = NoPending] ELSE PENDING
       /\ SetTask(t, Answered([s EXCEPT !.amt = people]))
       /\ UNCHANGED <<iftar_days, kv, zf_entries, today, credited, closures, intents>>

\* successful_payment with the payload zf:people:N: typ is "zf", none of the
\* branches iftar, water, id, ind_iftar, ind_water is taken, and the handler
\* goes on to the "unhandled" notification.
StartPaymentZf(t, n) ==
    /\ tasks[t].pc = "idle"
    /\ SetTask(t, [IdleTask EXCEPT !.h = "stars", !.uid = 2, !.camp = "zf", !.amt = n,
                                   !.pc = "h_after"])
    /\ UNCHANGED <<iftar_days, kv, zf_entries, PENDING, today, credited, closures, intents>>

\* Types admin_set_int, admin_set_price and admin_set_iftar_target: a number
\* above 0 is the new value (of the kv key, or of the target of the campaign
\* day).
\* A price is a float.  Floats are the integers and NaN, the value of
\* float("nan"), written here as a number below every number that is typed.
NaN == 0 - MaxDebit - 1

\* float(raw.replace(",", ".")): the number typed, NaN for the text nan, and
\* for any other text an exception (0 here, which the test val <= 0 refuses
\* as well).
ParsePrice(msg) ==
    IF msg.kind = "nan" THEN NaN ELSE IF msg.kind = "num" THEN msg.n ELSE 0

\* if val <= 0: raise ValueError.  No comparison with NaN holds.
NotAboveZero(val) == val # NaN /\ val <= 0

RouterAdminSet(t, u, msg) ==
    LET st == PENDING[u]
        s == RouterTask(u, msg)
        val == IF st.type = "admin_set_price" THEN ParsePrice(msg) ELSE ParsePositive(msg)
    IN /\ tasks[t].pc = "idle"
       /\ st.type \in {"admin_set_int", "admin_set_price", "admin_set_iftar_target"}
       /\ IF NotAboveZero(val)
          THEN SetTask(t, Answered(s))
          ELSE IF st.type \in {"admin_set_int", "admin_set_price"}
               THEN SetTask(t, [s EXCEPT !.pc = "kv_set", !.key = st.key, !.amt = val])
               ELSE SetTask(t, [s EXCEPT !.pc = "ist", !.day = iftar_campaign_day, !.amt = val])
       /\ UNCHANGED <<iftar_days, kv, zf_entries, PENDING, today, credited, closures, intents>>

\* await kv_set_int(key, val), await kv_set_float(key, val)
kv_set_int(t) ==
    LET s == tasks[t]
    IN /\ s.pc = "kv_set"
       /\ kv' = [kv EXCEPT ![s.key] = s.amt]
       /\ SetTask(t, Return(s))
       /\ UNCHANGED <<iftar_days, zf_entries, PENDING, today, credited, closures, intents>>

\* iftar_set_target(day, target): UPDATE iftar_days SET target_portions = target
iftar_set_target(t) ==
    LET s == tasks[t]
    IN /\ s.pc = "ist"
       /\ iftar_days' = [iftar_days EXCEPT ![s.day].target = s.amt]
       /\ SetTask(t, Return(s))
       /\ UNCHANGED <<kv, zf_entries, PENDING, today, credited, closures, intents>>

\* ------------------------------------------------------------------------
\* scheduler_loop: rollover_iftar_if_needed, once a minute
\* ------------------------------------------------------------------------

\* The tick starts: today_str = today_local().isoformat().  (A tick whose
\* notification fails is run again and moves again; the model stops ticking
\* once a day holds more than was ever credited.)
StartTick(t) ==
    /\ tasks[t].pc = "idle"
    /\ \A d \in Days : iftar_days[d].raised <= MaxCredited
    /\ \A o \in Tasks : tasks[o].h # "sched"
    /\ SetTask(t, [IdleTask EXCEPT !.pc = "ro_last", !.h = "sched", !.day = today])
    /\ UNCHANGED <<iftar_days, kv, zf_entries, PENDING, today, credited, closures, intents>>

\* last = await kv_get("last_rollover_date"); if last == today_str: return;
\* prev_day = get_ramadan_day(); new_day = iftar_campaign_day()
RollGetLast(t) ==
    LET s == tasks[t]
    IN /\ s.pc = "ro_last"
       /\ IF kv.last_rollover_date = s.day
          THEN SetTask(t, [s EXCEPT !.pc = "done"])
          ELSE SetTask(t, [s EXCEPT !.pc = "ro_prev", !.cur_day = get_ramadan_day,
                                    !.next_day = iftar_campaign_day])
       /\ UNCHANGED <<iftar_days, kv, zf_entries, PENDING, today, credited, closures, intents>>

\* prev_target, prev_raised, prev_closed = await iftar_get(prev_day);
\* if prev_closed == 0 and prev_raised > 0: move, else go on to the date
RollGetPrev(t) ==
    LET s == tasks[t]
        row == iftar_days[s.cur_day]
    IN /\ s.pc = "ro_prev"
       /\ SetTask(t, [s EXCEPT !.pc = IF row.closed = 0 /\ row.raised > 0 THEN "ro_new" ELSE "ro_date",
                               !.target = row.target, !.raised = row.raised,
                               !.closed = row.closed])
       /\ UNCHANGED <<iftar_days, kv, zf_entries, PENDING, today, credited, closures, intents>>

\* nt, nr, nc = await iftar_get(new_day)
RollGetNew(t) ==
    LET s == tasks[t]
    IN /\ s.pc = "ro_new"
       /\ SetTask(t, [s EXCEPT !.pc = "ro_move", !.nr = iftar_days[s.next_day].raised])
       /\ UNCHANGED <<iftar_days, kv, zf_entries, PENDING, today, credited, closures, intents>>

\* One transaction: UPDATE ... SET raised_portions = 0 WHERE day = prev_day;
\* UPDATE ... SET raised_portions = nr + prev_raised WHERE day = new_day
RollMove(t) ==
    LET s == tasks[t]
        zeroed == [iftar_days EXCEPT ![s.cur_day].raised = 0]
    IN /\ s.pc = "ro_move"
       /\ iftar_days' = [zeroed EXCEPT ![s.next_day].raised = s.nr + s.raised]
       /\ SetTask(t, [s EXCEPT !.pc = "ro_note", !.applied = @ + 1])
       /\ closures' = [closures EXCEPT !.moves[s.day] = @ + 1]
       /\ UNCHANGED <<kv, zf_entries, PENDING, today, credited, intents>>

\* await send_admin_html("... moved ..."): when it raises, the tick ends in
\* scheduler_loop's except branch and the date is not recorded.
RollNote(t, sent) ==
    LET s == tasks[t]
    IN /\ s.pc = "ro_note"
       /\ SetTask(t, [s EXCEPT !.pc = IF sent THEN "ro_date" ELSE "failed", !.noted = sent])
       /\ UNCHANGED <<iftar_days, kv, zf_entries, PENDING, today, credited, closures, intents>>

\* await kv_set("last_rollover_date", today_str)
RollSetDate(t) ==
    LET s == tasks[t]
    IN /\ s.pc = "ro_date"
       /\ kv' = [kv EXCEPT !.last_rollover_date = s.day]
       /\ SetTask(t, [s EXCEPT !.pc = "done"])
       /\ UNCHANGED <<iftar_days, zf_entries, PENDING, today, credited, closures, intents>>

rollover_iftar_if_needed(t) ==
    \/ RollGetLast(t)
    \/ RollGetPrev(t)
    \/ RollGetNew(t)
    \/ RollMove(t)
    \/ \E sent \in BOOLEAN : RollNote(t, sent)
    \/ RollSetDate(t)

\* ------------------------------------------------------------------------
\* cb_campaign: a user opens a campaign and is shown its state
\* ------------------------------------------------------------------------

\* LAST_CAMPAIGN[uid] = key; for iftar, day = iftar_campaign_day()
StartCampaign(t, key) ==
    /\ tasks[t].pc = "idle"
    /\ key \in {"iftar", "water"}
    /\ SetTask(t, [IdleTask EXCEPT !.pc = IF key = "iftar" THEN "cc_iftar" ELSE "cc_batch",
                                   !.h = "reader", !.uid = 2, !.camp = key,
                                   !.day = IF key = "iftar" THEN iftar_campaign_day ELSE 0])
    /\ UNCHANGED <<iftar_days, kv, zf_entries, PENDING, today, credited, closures, intents>>

\* A water credit that has closed a batch is between its two writes: the
\* new water_batch is stored, water_raised_eur still is the old one.
WaterMidWrite ==
    \E o \in Tasks : /\ tasks[o].pc = "wa_set_raised"
                     /\ tasks[o].n_closed > 0
                     /\ tasks[o].raised # kv.water_raised_eur

\* target, raised, _ = await iftar_get(day)
CampaignGetIftar(t) ==
    LET s == tasks[t]
        row == iftar_days[s.day]
    IN /\ s.pc = "cc_iftar"
       /\ SetTask(t, [s EXCEPT !.pc = "done", !.target = row.target, !.raised = row.raised,
                               !.closed = row.closed])
       /\ UNCHANGED <<iftar_days, kv, zf_entries, PENDING, today, credited, closures, intents>>

\* batch = await kv_get_int("water_batch", 1)
CampaignGetBatch(t) ==
    LET s == tasks[t]
    IN /\ s.pc = "cc_batch"
       /\ SetTask(t, [s EXCEPT !.pc = "cc_target", !.batch = kv.water_batch])
       /\ UNCHANGED <<iftar_days, kv, zf_entries, PENDING, today, credited, closures, intents>>

\* target = await kv_get_int("water_target_eur", DEFAULT_WATER_TARGET_EUR)
CampaignGetTarget(t) ==
    LET s == tasks[t]
    IN /\ s.pc = "cc_target"
       /\ SetTask(t, [s EXCEPT !.pc = "cc_raised", !.target = kv.water_target_eur])
       /\ UNCHANGED <<iftar_days, kv, zf_entries, PENDING, today, credited, closures, intents>>

\* raised = await kv_get_int("water_raised_eur", 0).  mid: the batch number
\* the reader holds is the stored one, and a water credit is between its writes.
CampaignGetRaised(t) ==
    LET s == tasks[t]
    IN /\ s.pc = "cc_raised"
       /\ SetTask(t, [s EXCEPT !.pc = "done", !.raised = kv.water_raised_eur,
                               !.mid = s.batch = kv.water_batch /\ WaterMidWrite])
       /\ UNCHANGED <<iftar_days, kv, zf_entries, PENDING, today, credited, closures, intents>>

cb_campaign(t) ==
    \/ CampaignGetIftar(t)
    \/ CampaignGetBatch(t)
    \/ CampaignGetTarget(t)
    \/ CampaignGetRaised(t)

\* ------------------------------------------------------------------------
\* A storage call that raises
\* ------------------------------------------------------------------------

\* The positions at which a credit is about to make a storage call.
StorageSteps ==
    {"ia_get", "ia_put", "ia_loop", "ia_close", "ia_next", "ia_carry",
     "wa_batch", "wa_target", "wa_raised", "wa_set_batch", "wa_set_raised"}

\* aiosqlite raises (the database is locked, the disk is full): the statement
\* changes nothing, the exception leaves the credit function and the command
\* handler, which catch nothing; what was committed before stays.
StorageFails(t) ==
    LET s == tasks[t]
    IN /\ s.pc \in StorageSteps
       /\ SetTask(t, [s EXCEPT !.pc = "failed", !.raw = "storage"])
       /\ UNCHANGED <<iftar_days, kv, zf_entries, PENDING, today, credited, closures, intents>>

\* ------------------------------------------------------------------------
\* Credits applied one at a time: Stars payments and admin /add_ commands,
\* each handler running to its end before the next one starts.
\* ------------------------------------------------------------------------

NextCredits ==
    \/ \E p \in StarsPayloads : AllIdle /\ StartPayment(1, p)
    \/ \E camp \in {"iftar", "water", "id"}, n \in Amounts : AllIdle /\ StartCmdAdd(1, camp, n)
    \/ AllIdle /\ AdvanceDate
    \/ iftar_add_with_autoclose(1)
    \/ water_add_with_autoclose(1)
    \/ kv_inc_int(1)
    \/ \E sent \in BOOLEAN : PaymentNote(1, sent)
    \/ CmdAnswer(1)
    \/ RedeliverPayment(1)
    \/ Finish(1)

SpecCredits == Init /\ [][NextCredits]_vars

\* ------------------------------------------------------------------------
\* Handlers running concurrently: aiogram handles every update in a task of
\* its own, so two messages or payments are two tasks whose storage calls
\* interleave.  The user is user 2; a new intent is made only while no
\* message of the user is being handled.
\* ------------------------------------------------------------------------

NoRouterTask(u) == \A t \in Tasks : tasks[t].h # "router" \/ tasks[t].uid # u

\* The run has room for a credit of n more.
ConcRoom(n) == TotalCredited + n <= ConcCredited

NextConc ==
    \/ \E camp \in {"iftar", "water"}, data \in {"quick_close", "quick_full"} :
           NoRouterTask(2) /\ cb_quick(2, camp, data)
    \/ \E camp \in {"iftar", "water", "id"} : NoRouterTask(2) /\ cb_mark_paid(2, camp)
    \/ \E t \in Tasks :
           \/ \E msg \in Messages : ConcRoom(PENDING[2].n) /\ RouterFixed(t, 2, msg)
           \/ \E msg \in Messages : ConcRoom(msg.n) /\ RouterAmount(t, 2, msg)
           \/ \E p \in StarsPayloads : ConcRoom(p.n) /\ StartPayment(t, p)
           \/ iftar_add_with_autoclose(t)
           \/ water_add_with_autoclose(t)
           \/ kv_inc_int(t)
           \/ \E sent \in BOOLEAN : RouterAfter(t, sent)
           \/ \E sent \in BOOLEAN : PaymentNote(t, sent)
           \/ Finish(t)

SpecConc == Init /\ [][NextConc]_vars

\* ------------------------------------------------------------------------
\* Self-reports of one user, one handler at a time: the callbacks that make
\* an intent and the messages that answer it, the notifications failing or
\* not.
\* ------------------------------------------------------------------------

NextPending ==
    \/ \E camp \in {"iftar", "water"}, data \in {"quick_close", "quick_full"} :
           AllIdle /\ cb_quick(2, camp, data)
    \/ \E camp \in {"iftar", "water", "id"} : AllIdle /\ cb_mark_paid(2, camp)
    \/ AllIdle /\ cb_id_mark(2)
    \/ AllIdle /\ cb_zf_mark(2)
    \/ \E msg \in Messages : AllIdle /\ RouterFixed(1, 2, msg)
    \/ \E msg \in Messages : AllIdle /\ RouterAmount(1, 2, msg)
    \/ \E msg \in Messages : AllIdle /\ RouterZfCode(1, 2, msg)
    \/ \E msg \in Messages : AllIdle /\ RouterZfLabel(1, 2, msg)
    \/ iftar_add_with_autoclose(1)
    \/ water_add_with_autoclose(1)
    \/ kv_inc_int(1)
    \/ zf_add_entry(1)
    \/ \E sent \in BOOLEAN : ZfNote(1, sent)
    \/ \E sent \in BOOLEAN : ZfPost(1, sent)
    \/ \E sent \in BOOLEAN : RouterAfter(1, sent)
    \/ Finish(1)

SpecPending == Init /\ [][NextPending]_vars

\* ------------------------------------------------------------------------
\* The ledger over the days: admin credits, admin target changes, the date
\* moving on and the scheduler's rollover, one handler at a time.
\* ------------------------------------------------------------------------

\* What the admin answers to a target prompt: a target, or "0".
AdminMessages ==
    {[kind |-> "num", n |-> n, len |-> 1] : n \in 1..MaxTarget}
        \cup {[kind |-> "cancel", n |-> 0, len |-> 1]}

NextLedger ==
    \/ \E camp \in {"iftar", "water"}, n \in Amounts :
           AllIdle /\ TotalCredited + n <= LedgerCredited /\ StartCmdAdd(1, camp, n)
    \/ \E data \in {"adm_set_water_target", "adm_set_iftar_target"} :
           AllIdle /\ cb_admin(ADMIN_ID, data)
    \/ \E msg \in AdminMessages : AllIdle /\ RouterAdminSet(1, ADMIN_ID, msg)
    \/ AllIdle /\ StartTick(1)
    \/ AllIdle /\ AdvanceDate
    \/ iftar_add_with_autoclose(1)
    \/ water_add_with_autoclose(1)
    \/ kv_set_int(1)
    \/ iftar_set_target(1)
    \/ rollover_iftar_if_needed(1)
    \/ \E sent \in BOOLEAN : RouterAfter(1, sent)
    \/ CmdAnswer(1)
    \/ Finish(1)

SpecLedger == Init /\ [][NextLedger]_vars

\* ------------------------------------------------------------------------
\* A reader beside a writer: task 1 runs the admin's credits one after the
\* other, task 2 is a user opening a campaign at any moment.
\* ------------------------------------------------------------------------

NextObserve ==
    \/ \E camp \in {"iftar", "water"}, n \in Amounts :
           ConcRoom(n) /\ StartCmdAdd(1, camp, n)
    \/ iftar_add_with_autoclose(1)
    \/ water_add_with_autoclose(1)
    \/ CmdAnswer(1)
    \/ Finish(1)
    \/ \E key \in {"iftar", "water"} : StartCampaign(2, key)
    \/ cb_campaign(2)
    \/ Finish(2)

SpecObserve == Init /\ [][NextObserve]_vars

\* ------------------------------------------------------------------------
\* Admin credits one at a time, any storage call of which may raise; the
\* run is followed up to the first call that does.
\* ------------------------------------------------------------------------

NextFailure ==
    \/ \E camp \in {"iftar", "water"}, n \in Amounts : AllIdle /\ StartCmdAdd(1, camp, n)
    \/ iftar_add_with_autoclose(1)
    \/ water_add_with_autoclose(1)
    \/ StorageFails(1)
    \/ CmdAnswer(1)
    \/ tasks[1].pc = "done" /\ Finish(1)

SpecFailure == Init /\ [][NextFailure]_vars

\* ------------------------------------------------------------------------
\* Amounts of any sign: the admin's /add_ commands and manual additions and
\* a user's self-reports, one handler at a time; the run is followed up to
\* the end of the first credit of an amount that is not above zero.
\* ------------------------------------------------------------------------

NextSigned ==
    \/ \E camp \in {"iftar", "water", "id"}, n \in SignedAmounts :
           AllIdle /\ StartCmdAdd(1, camp, n)
    \/ \E camp \in {"iftar", "water", "id"} : AllIdle /\ cb_mark_paid(2, camp)
    \/ \E camp \in {"iftar", "water", "id"} : AllIdle /\ cb_manual_add(ADMIN_ID, camp)
    \/ \E msg \in SignedMessages : AllIdle /\ RouterAmount(1, 2, msg)
    \/ \E msg \in SignedMessages : AllIdle /\ RouterManualAdd(1, ADMIN_ID, msg)
    \/ iftar_add_with_autoclose(1)
    \/ water_add_with_autoclose(1)
    \/ kv_inc_int(1)
    \/ \E sent \in BOOLEAN : RouterAfter(1, sent)
    \/ CmdAnswer(1)
    \/ (tasks[1].camp = "none" \/ tasks[1].amt > 0) /\ Finish(1)

SpecSigned == Init /\ [][NextSigned]_vars

\* ------------------------------------------------------------------------
\* The ZF tally: the user's self-report, the admin's /add_zf and manual
\* addition, and Stars payments for ZF, one handler at a time.
\* ------------------------------------------------------------------------

\* The run has room for n more people.
TallyRoom(n) == TotalCredited + n <= TallyPeople

NextTally ==
    \/ AllIdle /\ cb_zf_mark(2)
    \/ AllIdle /\ cb_pay_zf(2)
    \/ AllIdle /\ cb_manual_add(ADMIN_ID, "zf")
    \/ \E msg \in TallyMessages : AllIdle /\ RouterZfCode(1, 2, msg)
    \/ \E msg \in TallyMessages : AllIdle /\ TallyRoom(PENDING[2].n) /\ RouterZfLabel(1, 2, msg)
    \/ \E msg \in TallyMessages : AllIdle /\ RouterZfStars(1, 2, msg)
    \/ \E msg \in AdminEntries \cup TallyMessages :
           AllIdle /\ TallyRoom(msg.n) /\ RouterManualAddZf(1, ADMIN_ID, msg)
    \/ \E msg \in AdminEntries : AllIdle /\ TallyRoom(msg.n) /\ StartCmdAddZf(1, msg)
    \/ \E n \in Amounts : AllIdle /\ StartPaymentZf(1, n)
    \/ zf_add_entry(1)
    \/ \E sent \in BOOLEAN : ZfNote(1, sent)
    \/ \E sent \in BOOLEAN : ZfPost(1, sent)
    \/ \E sent \in BOOLEAN : CmdZfPost(1, sent)
    \/ \E sent \in BOOLEAN : ManualZfPost(1, sent)
    \/ \E sent \in BOOLEAN : PaymentNote(1, sent)
    \/ Finish(1)

SpecTally == Init /\ [][NextTally]_vars

\* ------------------------------------------------------------------------
\* Stars payments, one at a time, with payloads the handler can use and
\* payloads it cannot, the admin notification failing or not.
\* ------------------------------------------------------------------------

NextPayments ==
    \/ \E p \in StarsPayloads : AllIdle /\ StartPayment(1, p)
    \/ \E p \in BadPayloads : AllIdle /\ StartPaymentBad(1, p)
    \/ AllIdle /\ AdvanceDate
    \/ iftar_add_with_autoclose(1)
    \/ water_add_with_autoclose(1)
    \/ kv_inc_int(1)
    \/ \E sent \in BOOLEAN : PaymentNote(1, sent)
    \/ Finish(1)

SpecPayments == Init /\ [][NextPayments]_vars

\* ------------------------------------------------------------------------
\* Stars payments while the admin changes the rate and the prices, one
\* handler at a time.
\* ------------------------------------------------------------------------

\* What the admin answers to a rate or price prompt.
RateMessages == {[kind |-> "num", n |-> n, len |-> 1] : n \in 1..MaxRate}

NextRates ==
    \/ \E data \in {"adm_set_rate", "adm_set_iftar_price", "adm_set_zf_price"} :
           AllIdle /\ cb_admin(ADMIN_ID, data)
    \/ \E msg \in RateMessages : AllIdle /\ RouterAdminSet(1, ADMIN_ID, msg)
    \/ \E p \in StarsPayloads : AllIdle /\ StartPayment(1, p)
    \/ kv_set_int(1)
    \/ iftar_add_with_autoclose(1)
    \/ water_add_with_autoclose(1)
    \/ kv_inc_int(1)
    \/ \E sent \in BOOLEAN : RouterAfter(1, sent)
    \/ \E sent \in BOOLEAN : PaymentNote(1, sent)
    \/ Finish(1)

SpecRates == Init /\ [][NextRates]_vars

\* ------------------------------------------------------------------------
\* The admin and a user side by side, one handler at a time: both press
\* the admin's buttons, send the admin's commands and answer prompts; the
\* user reports and pays.
\* ------------------------------------------------------------------------

\* The answers to a prompt: a number, or "0".
AccessMessages ==
    {[kind |-> "num", n |-> n, len |-> 1] : n \in 1..AccessValue}
        \cup {[kind |-> "cancel", n |-> 0, len |-> 1]}

NextAccess ==
    \/ \E u \in Users, data \in {"adm_set_rate", "adm_set_iftar_price", "adm_set_zf_price",
                                  "adm_set_water_target", "adm_set_iftar_target"} :
           AllIdle /\ cb_admin(u, data)
    \/ \E u \in Users : AllIdle /\ cb_admin_refused(1, u)
    \/ \E u \in Users : AllIdle /\ CmdRefused(1, u)
    \/ \E u \in Users, msg \in AccessMessages : AllIdle /\ RouterAdminSet(1, u, msg)
    \/ \E camp \in {"iftar", "water", "id"} : AllIdle /\ cb_mark_paid(2, camp)
    \/ \E msg \in AccessMessages :
           AllIdle /\ TotalCredited + msg.n <= AccessCredited /\ RouterAmount(1, 2, msg)
    \/ \E p \in StarsPayloads :
           AllIdle /\ TotalCredited + p.n <= AccessCredited /\ StartPayment(1, p)
    \/ kv_set_int(1)
    \/ iftar_set_target(1)
    \/ iftar_add_with_autoclose(1)
    \/ water_add_with_autoclose(1)
    \/ kv_inc_int(1)
    \/ \E sent \in BOOLEAN : RouterAfter(1, sent)
    \/ \E sent \in BOOLEAN : PaymentNote(1, sent)
    \/ Finish(1)

SpecAccess == Init /\ [][NextAccess]_vars

\* ------------------------------------------------------------------------
\* Reading a day: the rows of iftar_days that exist
\* ------------------------------------------------------------------------
\* The table has a row only for the days that have been referred to.  For
\* the readers iftar_days is the table itself: a function on the days that
\* have a row.

\* A row as a credit can have left it: untouched, part raised, closed.
StoredRows ==
    {DefaultRow,
     [DefaultRow EXCEPT !.raised = 1],
     [DefaultRow EXCEPT !.raised = DEFAULT_IFTAR_TARGET_PORTIONS, !.closed = 1]}

\* db_init ends with ensure_iftar_day(iftar_campaign_day()): the row of the
\* campaign day exists, any other row may or may not.
InitRead ==
    /\ \E S \in SUBSET Days :
           /\ (IF FirstDay + 1 > LastDay THEN LastDay ELSE FirstDay + 1) \in S
           /\ iftar_days \in [S -> StoredRows]
    /\ kv = [water_batch |-> 1,
             water_target_eur |-> DEFAULT_WATER_TARGET_EUR,
             water_raised_eur |-> 0,
             id_raised_eur |-> 0,
             last_rollover_date |-> 0,
             eur_to_stars |-> DEFAULT_EUR_TO_STARS,
             iftar_portion_eur |-> DEFAULT_IFTAR_PORTION_EUR,
             zf_eur_per_person |-> DEFAULT_ZF_EUR_PER_PERSON,
             ind_iftar_next_day |-> 0,
             ind_water_next_batch |-> 1]
    /\ zf_entries = <<>>
    /\ PENDING = [u \in Users |-> NoPending]
    /\ today = FirstDay
    /\ tasks = [t \in Tasks |-> IdleTask]
    /\ credited = [iftar |-> 0, water |-> 0, id |-> 0, zf |-> 0]
    /\ closures = [iftar |-> [d \in Days |-> 0], water |-> <<>>,
                   moves |-> [d \in Days |-> 0]]
    /\ intents = [u \in Users |-> 0]

\* /report_day <day>: the admin only, any day of the month.
cmd_report_day(t, u, day) ==
    /\ is_admin(u)
    /\ tasks[t].pc = "idle"
    /\ day \in Days
    /\ SetTask(t, [IdleTask EXCEPT !.h = "report_day", !.uid = u, !.day = day,
                                   !.pc = "ig_ensure"])
    /\ UNCHANGED <<iftar_days, kv, zf_entries, PENDING, today, credited, closures, intents>>

\* cb_campaign for the iftar campaign, and the daily report: both read the
\* campaign day.
ReadCampaignDay(t, h) ==
    /\ tasks[t].pc = "idle"
    /\ h \in {"cb_campaign", "daily_report"}
    /\ SetTask(t, [IdleTask EXCEPT !.h = h, !.uid = 2, !.day = iftar_campaign_day,
                                   !.pc = "ig_ensure"])
    /\ UNCHANGED <<iftar_days, kv, zf_entries, PENDING, today, credited, closures, intents>>

\* ensure_iftar_day(day): SELECT day ...; when there is no row, INSERT one
\* with the default target, raised 0, not closed.
ensure_iftar_day(t) ==
    LET s == tasks[t]
    IN /\ s.pc = "ig_ensure"
       /\ iftar_days' = IF s.day \in DOMAIN iftar_days
                        THEN iftar_days
                        ELSE [d \in DOMAIN iftar_days \cup {s.day} |->
                                  IF d = s.day THEN DefaultRow ELSE iftar_days[d]]
       /\ SetTask(t, [s EXCEPT !.pc = "ig_select"])
       /\ UNCHANGED <<kv, zf_entries, PENDING, today, credited, closures, intents>>

\* iftar_get(day), after ensure_iftar_day: SELECT target_portions,
\* raised_portions, is_closed; the defaults when the row is missing.
iftar_get(t) ==
    LET s == tasks[t]
        row == IF s.day \in DOMAIN iftar_days THEN iftar_days[s.day] ELSE DefaultRow
    IN /\ s.pc = "ig_select"
       /\ SetTask(t, [s EXCEPT !.pc = "done", !.target = row.target,
                               !.raised = row.raised, !.closed = row.closed])
       /\ UNCHANGED <<iftar_days, kv, zf_entries, PENDING, today, credited, closures, intents>>

NextRead ==
    \/ \E t \in Tasks, day \in Days : cmd_report_day(t, ADMIN_ID, day)
    \/ \E t \in Tasks, h \in {"cb_campaign", "daily_report"} : ReadCampaignDay(t, h)
    \/ \E t \in Tasks : ensure_iftar_day(t)
    \/ \E t \in Tasks : iftar_get(t)
    \/ \E t \in Tasks : Finish(t)

SpecRead == InitRead /\ [][NextRead]_vars

\* ------------------------------------------------------------------------
\* Credits that run to their end
\* ------------------------------------------------------------------------
\* One handler at a time credits a ledger whose targets are any positive
\* numbers, on any date.  The event loop resumes a coroutine whose awaited
\* call has returned, and the calls to the database return: every step of a
\* credit that can be taken is taken in the end.

\* The steps inside iftar_add_with_autoclose and water_add_with_autoclose.
CreditPcs ==
    {"ia_get", "ia_put", "ia_loop", "ia_close", "ia_next", "ia_carry", "ia_note",
     "wa_batch", "wa_target", "wa_raised", "wa_note", "wa_set_batch", "wa_set_raised"}

\* The targets are what the environment or the admin has set them to: any
\* positive number for the days, any for the water batch.
InitTerm ==
    /\ \E target \in 1..MaxTarget :
           iftar_days = [d \in Days |-> [DefaultRow EXCEPT !.target = target]]
    /\ \E target \in 1..MaxTarget :
           kv = [water_batch |-> 1,
                 water_target_eur |-> target,
                 water_raised_eur |-> 0,
                 id_raised_eur |-> 0,
                 last_rollover_date |-> 0,
                 eur_to_stars |-> DEFAULT_EUR_TO_STARS,
                 iftar_portion_eur |-> DEFAULT_IFTAR_PORTION_EUR,
                 zf_eur_per_person |-> DEFAULT_ZF_EUR_PER_PERSON,
                 ind_iftar_next_day |-> 0,
                 ind_water_next_batch |-> 1]
    /\ zf_entries = <<>>
    /\ PENDING = [u \in Users |-> NoPending]
    /\ today \in Days
    /\ tasks = [t \in Tasks |-> IdleTask]
    /\ credited = [iftar |-> 0, water |-> 0, id |-> 0, zf |-> 0]
    /\ closures = [iftar |-> [d \in Days |-> 0], water |-> <<>>,
                   moves |-> [d \in Days |-> 0]]
    /\ intents = [u \in Users |-> 0]

NextTerm ==
    \/ \E camp \in {"iftar", "water"}, n \in Amounts :
           TotalCredited + n <= TermCredited /\ StartCmdAdd(1, camp, n)
    \/ iftar_add_with_autoclose(1)
    \/ water_add_with_autoclose(1)
    \/ CmdAnswer(1)
    \/ Finish(1)

SpecTerm ==
    /\ InitTerm
    /\ [][NextTerm]_vars
    /\ WF_vars(iftar_add_with_autoclose(1) \/ water_add_with_autoclose(1))

\* ------------------------------------------------------------------------
\* Ticks of the scheduler, with payments that arrive late
\* ------------------------------------------------------------------------
\* The date moves on, the scheduler ticks, the admin credits the campaign
\* day and Stars payments arrive for invoices of the campaign days so far.

NextRollover ==
    \/ \E n \in Amounts :
           AllIdle /\ TotalCredited + n <= LedgerCredited /\ StartCmdAdd(1, "iftar", n)
    \/ \E p \in StarsPayloads :
           /\ AllIdle
           /\ p.typ = "iftar"
           /\ TotalCredited + p.n <= LedgerCredited
           /\ StartPayment(1, p)
    \/ AllIdle /\ StartTick(1)
    \/ AllIdle /\ AdvanceDate
    \/ iftar_add_with_autoclose(1)
    \/ rollover_iftar_if_needed(1)
    \/ \E sent \in BOOLEAN : PaymentNote(1, sent)
    \/ CmdAnswer(1)
    \/ Finish(1)

SpecRollover == Init /\ [][NextRollover]_vars

\* ------------------------------------------------------------------------
\* The admin's settings and what is typed for them
\* ------------------------------------------------------------------------

\* What the admin types after a prompt: a number, above 0 or not, a text
\* that is no number, and the text nan.
SettingMessages ==
    {[kind |-> "num", n |-> n, len |-> 1] : n \in (0 - MaxDebit)..AccessValue}
        \cup {[kind |-> "label", n |-> 0, len |-> 1], [kind |-> "nan", n |-> 0, len |-> 3]}

NextSettings ==
    \/ \E data \in {"adm_set_rate", "adm_set_iftar_price", "adm_set_zf_price",
                    "adm_set_water_target", "adm_set_iftar_target"} :
           AllIdle /\ cb_admin(ADMIN_ID, data)
    \/ \E msg \in SettingMessages : AllIdle /\ RouterAdminSet(1, ADMIN_ID, msg)
    \/ kv_set_int(1)
    \/ iftar_set_target(1)
    \/ \E sent \in BOOLEAN : RouterAfter(1, sent)
    \/ AllIdle /\ AdvanceDate
    \/ Finish(1)

SpecSettings == Init /\ [][NextSettings]_vars

\* ------------------------------------------------------------------------
\* The four campaigns side by side
\* ------------------------------------------------------------------------
\* One handler credits iftar and water while another credits Id and enters
\* people in the ZF tally.

NextCampaigns ==
    \/ \E camp \in {"iftar", "water"}, n \in Amounts :
           TotalCredited + n <= IndepCredited /\ StartCmdAdd(1, camp, n)
    \/ \E n \in Amounts :
           TotalCredited + n <= IndepCredited /\ StartCmdAdd(2, "id", n)
    \/ \E msg \in AdminEntries :
           TotalCredited + msg.n <= IndepCredited /\ StartCmdAddZf(2, msg)
    \/ iftar_add_with_autoclose(1)
    \/ water_add_with_autoclose(1)
    \/ kv_inc_int(2)
    \/ zf_add_entry(2)
    \/ \E t \in Tasks : CmdAnswer(t)
    \/ \E sent \in BOOLEAN : CmdZfPost(2, sent)
    \/ \E t \in Tasks : Finish(t)

SpecCampaigns == Init /\ [][NextCampaigns]_vars

\* ------------------------------------------------------------------------
\* Individual reservations: cb_ind_mark_paid
\* ------------------------------------------------------------------------

\* The kv key of the next free day or batch.
IndKey(kind) == IF kind = "ind_iftar" THEN "ind_iftar_next_day" ELSE "ind_water_next_batch"

\* cb_ind_mark_paid: kind = "ind_iftar" if campaign == "ind_iftar" else
\* "ind_water", then the reservation for it.
cb_ind_mark_paid(t, u, kind) ==
    /\ tasks[t].pc = "idle"
    /\ kind \in {"ind_iftar", "ind_water"}
    /\ kv.ind_water_next_batch <= MaxReserved
    /\ SetTask(t, [IdleTask EXCEPT !.h = "cb_ind_mark_paid", !.uid = u, !.camp = kind,
                                   !.pc = "ind_get"])
    /\ UNCHANGED <<iftar_days, kv, zf_entries, PENDING, today, credited, closures, intents>>

\* ind_iftar_next_day / ind_water_next_batch: cur = await kv_get_int(key);
\* if cur <= 0: cur = iftar_campaign_day() (1 for water), to be stored
IndNextGet(t) ==
    LET s == tasks[t]
        cur == kv[IndKey(s.camp)]
    IN /\ s.pc = "ind_get"
       /\ IF cur <= 0
          THEN SetTask(t, [s EXCEPT !.pc = "ind_init",
                                    !.nr = IF s.camp = "ind_iftar" THEN iftar_campaign_day ELSE 1])
          ELSE SetTask(t, [s EXCEPT !.pc = "ind_set", !.nr = cur])
       /\ UNCHANGED <<iftar_days, kv, zf_entries, PENDING, today, credited, closures, intents>>

\* await kv_set_int(key, cur); return cur
IndNextInit(t) ==
    LET s == tasks[t]
    IN /\ s.pc = "ind_init"
       /\ kv' = [kv EXCEPT ![IndKey(s.camp)] = s.nr]
       /\ SetTask(t, [s EXCEPT !.pc = "ind_set"])
       /\ UNCHANGED <<iftar_days, zf_entries, PENDING, today, credited, closures, intents>>

\* ind_iftar_reserve_day: await kv_set_int("ind_iftar_next_day", min(30, d + 1));
\* ind_water_reserve_batch: await kv_set_int("ind_water_next_batch", b + 1);
\* return d (b), which the handler puts in PENDING[uid].
IndReserveSet(t) ==
    LET s == tasks[t]
    IN /\ s.pc = "ind_set"
       /\ kv' = [kv EXCEPT ![IndKey(s.camp)] =
                     IF s.camp = "ind_iftar" THEN NextDay(s.nr) ELSE s.nr + 1]
       /\ PENDING' = [PENDING EXCEPT ![s.uid] =
                          IF s.camp = "ind_iftar"
                          THEN Pending("ind_collect_video", s.nr, 0, s.camp)
                          ELSE Pending("ind_collect_video", 0, s.nr, s.camp)]
       /\ SetTask(t, [s EXCEPT !.pc = "done", !.day = s.nr])
       /\ UNCHANGED <<iftar_days, zf_entries, today, credited, closures, intents>>

ind_reserve(t) == IndNextGet(t) \/ IndNextInit(t) \/ IndReserveSet(t)

\* Two users press the button, each handled by a task of its own.
NextReserve ==
    \/ \E kind \in {"ind_iftar", "ind_water"} : cb_ind_mark_paid(1, ADMIN_ID, kind)
    \/ \E kind \in {"ind_iftar", "ind_water"} : cb_ind_mark_paid(2, 2, kind)
    \/ \E t \in Tasks : ind_reserve(t)
    \/ \E t \in Tasks : Finish(t)

SpecReserve == Init /\ [][NextReserve]_vars

\* ---------------------------------------------------------------------------
\* Self-reports that are typed wrongly and typed again
\* ---------------------------------------------------------------------------

\* What a user may type at a prompt: the usual messages, numbers of either
\* sign and zero, and ZF codes whose number is zero or has four digits.
RetryMessages ==
    Messages \cup SignedMessages
        \cup {[kind |-> "code", n |-> n, len |-> 3] : n \in {0, 1000}}

\* A user presses the "I paid" buttons and answers the prompts, rightly or
\* wrongly, one message at a time.
NextRetry ==
    \/ \E camp \in {"iftar", "water", "id"} : AllIdle /\ cb_mark_paid(2, camp)
    \/ AllIdle /\ cb_id_mark(2)
    \/ AllIdle /\ cb_zf_mark(2)
    \/ \E msg \in RetryMessages :
           AllIdle /\ TotalCredited + ParsePositive(msg) <= RetryCredited /\ RouterAmount(1, 2, msg)
    \/ \E msg \in RetryMessages : AllIdle /\ RouterZfCode(1, 2, msg)
    \/ \E msg \in RetryMessages :
           AllIdle /\ TotalCredited + PENDING[2].n <= RetryCredited /\ RouterZfLabel(1, 2, msg)
    \/ iftar_add_with_autoclose(1)
    \/ water_add_with_autoclose(1)
    \/ kv_inc_int(1)
    \/ zf_add_entry(1)
    \/ \E sent \in BOOLEAN : ZfNote(1, sent)
    \/ \E sent \in BOOLEAN : ZfPost(1, sent)
    \/ \E sent \in BOOLEAN : RouterAfter(1, sent)
    \/ Finish(1)

SpecRetry == Init /\ [][NextRetry]_vars

\* ------------------------------------------------------------------------
\* Ledger totals
\* ------------------------------------------------------------------------

RECURSIVE SumOver(_, _)
SumOver(f, S) ==
    IF S = {} THEN 0
    ELSE LET x == CHOOSE y \in S : TRUE IN f[x] + SumOver(f, S \ {x})

\* What a day counts for: its target once closed, what it has raised while open.
DayCounts(row) == IF row.closed = 1 THEN row.target ELSE row.raised

IftarTotal == SumOver([d \in Days |-> DayCounts(iftar_days[d])], Days)

\* The closed batches 1 .. water_batch - 1 at the target, plus the open one.
WaterTotal == (kv.water_batch - 1) * kv.water_target_eur + kv.water_raised_eur

\* C1: with credits applied one at a time and targets unchanged, the targets
\* of the closed cycles plus the raised amounts of the cycles that are not
\* closed add up to the sum of the credited amounts, for iftar and for water.
C1_Conservation ==
    Quiet => /\ IftarTotal = credited.iftar
             /\ WaterTotal = credited.water

\* C1 witness: a credit has gone to a day that was already closed, has reached
\* day 30, and water has closed a batch, all handlers finished.
C1_Witness ==
    /\ Quiet
    /\ \E t \in Tasks : tasks[t].pc = "done" /\ tasks[t].camp = "iftar"
                        /\ tasks[t].closed0 = 1 /\ tasks[t].cur_day = LastDay
    /\ kv.water_batch > 1

\* ------------------------------------------------------------------------
\* One credit, seen when its function has just returned
\* ------------------------------------------------------------------------

\* The credit function of task t has returned to its handler.
Returned(t, camp) == tasks[t].pc = "h_after" /\ tasks[t].camp = camp

\* What the credited cycle had raised before the credit.
RaisedBefore(s) == s.new_raised - s.amt

\* The water batch that was open before the credit.
BatchBefore(s) == s.batch - s.n_closed

\* C3: a successful_payment update delivered a second time credits nothing:
\* over all deliveries of one payment the ledger is credited once.
C3_ReplayCreditsOnce ==
    \A t \in Tasks : tasks[t].h = "stars" => tasks[t].applied <= 1

\* C6: a credit of exactly target - raised to an open cycle leaves the cycle
\* closed with raised = target, and the next cycle (the next water batch; the
\* next iftar day when it had no contributions) open with raised 0.
C6_ExactFill ==
    \A t \in Tasks :
        LET s == tasks[t] IN
        /\ (Returned(t, "iftar") /\ s.closed0 = 0
              /\ s.amt = iftar_days[s.day].target - RaisedBefore(s))
           => /\ iftar_days[s.day].closed = 1
              /\ iftar_days[s.day].raised = iftar_days[s.day].target
              /\ (s.fresh => /\ iftar_days[NextDay(s.day)].closed = 0
                             /\ iftar_days[NextDay(s.day)].raised = 0)
        /\ (Returned(t, "water") /\ s.amt = s.target - RaisedBefore(s))
           => /\ kv.water_batch = BatchBefore(s) + 1
              /\ kv.water_raised_eur = 0

\* The cascade of C7 for iftar: the days from the credited one up to the one
\* the call ended on are closed at the target T, their number is
\* floor((r + x) / T), and the day it ended on is open with (r + x) mod T.
IftarCascade(s) ==
    LET T == iftar_days[s.day].target
        sum == RaisedBefore(s) + s.amt
    IN /\ s.n_closed = sum \div T
       /\ s.cur_day = s.day + s.n_closed
       /\ \A d \in s.day..(s.cur_day - 1) :
              iftar_days[d].closed = 1 /\ iftar_days[d].raised = T
       /\ iftar_days[s.cur_day].closed = 0
       /\ iftar_days[s.cur_day].raised = sum % T

\* The cascade of C7 for water.
WaterCascade(s) ==
    LET sum == RaisedBefore(s) + s.amt
    IN /\ s.n_closed = sum \div s.target
       /\ kv.water_batch = BatchBefore(s) + s.n_closed
       /\ kv.water_raised_eur = sum % s.target

\* Every iftar target is the target of the credited day, the credited day
\* was open below its target, and the call did not end on day 30.
CascadeCase(s) ==
    /\ \A d \in Days : iftar_days[d].target = iftar_days[s.day].target
    /\ s.closed0 = 0
    /\ RaisedBefore(s) < iftar_days[s.day].target
    /\ s.cur_day < LastDay

\* C7 as stated: with every target T, raised r < T before and day 30 not
\* reached, a credit of x closes floor((r + x) / T) cycles and leaves the
\* open cycle with (r + x) mod T.
C7_Cascade_AsStated ==
    \A t \in Tasks :
        LET s == tasks[t] IN
        /\ (Returned(t, "iftar") /\ CascadeCase(s)) => IftarCascade(s)
        /\ (Returned(t, "water") /\ RaisedBefore(s) < s.target) => WaterCascade(s)

\* C7, amended: the same, for iftar when moreover every following day the
\* credit reached was open and had raised nothing before.
C7_Cascade ==
    \A t \in Tasks :
        LET s == tasks[t] IN
        /\ (Returned(t, "iftar") /\ CascadeCase(s) /\ s.fresh) => IftarCascade(s)
        /\ (Returned(t, "water") /\ RaisedBefore(s) < s.target) => WaterCascade(s)

\* C7 witness: an iftar credit to a day that had raised something has closed
\* two days and left a remainder in the third, which was empty before.
C7_Witness ==
    \E t \in Tasks : LET s == tasks[t] IN
        /\ Returned(t, "iftar") /\ CascadeCase(s) /\ s.fresh
        /\ RaisedBefore(s) > 0
        /\ s.n_closed = 2 /\ iftar_days[s.cur_day].raised > 0

\* C10: each iftar day and each water batch number is closed at most once:
\* at most one closure notification is sent for it.
C10_NoCycleClosesTwice ==
    /\ \A d \in Days : closures.iftar[d] <= 1
    /\ \A b \in 1..Len(closures.water) : closures.water[b] <= 1

\* C2: when two credits to the same open cycle (two water credits, or two
\* iftar credits to the same day) have run as concurrent handlers and both
\* have finished, the ledger holds both: the conserved total is the sum
\* credited.
C2_NoLostUpdate ==
    LET a == tasks[1]
        b == tasks[2]
    IN (a.pc = "done" /\ b.pc = "done" /\ a.camp = b.camp)
       => /\ a.camp = "water" => WaterTotal = credited.water
          /\ (a.camp = "iftar" /\ a.day = b.day) => IftarTotal = credited.iftar

\* C4: one pending intent of a user is credited at most once, however the
\* handlers of the user's confirmation messages interleave.
C4_IntentCreditedOnce ==
    \A u \in Users : intents[u] <= 1

\* The handler has taken the message as the confirmation of the intent: it
\* went on to credit it or to add the ZF entry.
Confirming(s) == s.h = "router" /\ s.camp \in {"iftar", "water", "id", "zf"}

\* C5: when a confirmation handler has finished, normally or by a failed
\* notification or list post, the pending intent is gone exactly when its
\* credit or ZF entry has been applied.
C5_ConsumedWithCredit ==
    \A t \in Tasks :
        LET s == tasks[t] IN
        (Confirming(s) /\ s.pc \in {"done", "failed"})
            => (s.applied > 0 <=> PENDING[s.uid] = NoPending)

\* C8: after every finished operation (credit, admin target change,
\* rollover) no open cycle has raised at or above its target: not the water
\* batch and not an iftar day, day 30 included.
C8_OpenBelowTarget ==
    Quiet => /\ kv.water_raised_eur < kv.water_target_eur
             /\ \A d \in Days : iftar_days[d].closed = 0
                                  => iftar_days[d].raised < iftar_days[d].target

\* C9: after every finished operation every closed iftar day holds exactly
\* its target.
C9_ClosedAtTarget ==
    Quiet => \A d \in Days : iftar_days[d].closed = 1
                               => iftar_days[d].raised = iftar_days[d].target

\* C11: a reader never sees a credit half done: the iftar day it reads is
\* not open with raised at or above its target, and the water batch number
\* and raised amount it reads are not the ones stored between the two
\* writes of a credit that closed a batch.
C11_ReaderSeesWholeCredits ==
    \A t \in Tasks :
        LET s == tasks[t] IN
        (s.h = "reader" /\ s.pc = "done")
            => /\ s.camp = "iftar" => (s.closed = 0 => s.raised < s.target)
               /\ s.camp = "water" => ~s.mid

\* No cycle that can still advance is open at or above its target.
LedgerSettled ==
    /\ kv.water_raised_eur < kv.water_target_eur
    /\ \A d \in Days \ {LastDay} :
           iftar_days[d].closed = 0 => iftar_days[d].raised < iftar_days[d].target

\* C12: when a storage call of a credit raises, the stored ledger is the one
\* before the credit or the one with the credit fully distributed: it is
\* settled and its conserved total is the sum credited, with or without the
\* amount of the failed credit.
C12_AllOrNothing ==
    \A t \in Tasks :
        LET s == tasks[t] IN
        (s.pc = "failed" /\ s.raw = "storage")
            => /\ LedgerSettled
               /\ s.camp = "iftar" => IftarTotal \in {credited.iftar, credited.iftar - s.amt}
               /\ s.camp = "water" => WaterTotal \in {credited.water, credited.water - s.amt}

\* The third value iftar_add_with_autoclose returns: return cur_day,
\* int(portions), overflow.
ReturnedOverflow(s) == s.overflow

\* C13: when an iftar credit has reached day 30 and day 30 is left with more
\* than its target, the overflow the call returns is what day 30 holds above
\* its target, for a credit addressed to day 30 and for one cascading into it.
C13_CapOverflowReported ==
    \A t \in Tasks :
        LET s == tasks[t]
            last == iftar_days[LastDay]
        IN (Returned(t, "iftar") /\ s.n_closed > 0 /\ s.cur_day = LastDay
              /\ last.raised > last.target)
           => ReturnedOverflow(s) = last.raised - last.target

\* ------------------------------------------------------------------------
\* C14: an amount of zero or below is rejected wherever it is entered, and
\* the ledger is as it was
\* ------------------------------------------------------------------------

\* A handler is at work on a credit of an amount that is not above zero.
NonPositiveCredit ==
    \E t \in Tasks :
        /\ tasks[t].pc # "idle"
        /\ tasks[t].camp \in {"iftar", "water", "id"}
        /\ tasks[t].amt <= 0

\* C14: no step taken while a handler works on a credit of zero or a negative
\* amount changes a day's raised amount, target or closed flag, the water
\* batch or its raised amount, or the Id counter.
C14_NonPositiveRejected ==
    [][NonPositiveCredit => (iftar_days' = iftar_days /\ kv' = kv)]_vars

\* ------------------------------------------------------------------------
\* C15: a credit addressed to a closed day is rejected
\* ------------------------------------------------------------------------

\* iftar_add_with_autoclose is at work for a day it found closed.
CreditToClosedDay ==
    \E t \in Tasks :
        /\ tasks[t].camp = "iftar"
        /\ tasks[t].pc \in {"ia_put", "ia_loop", "ia_close", "ia_next", "ia_carry", "ia_note"}
        /\ tasks[t].closed0 = 1

\* C15: no step of iftar_add_with_autoclose(day, n), called for a day whose
\* is_closed is 1, changes the raised amount or the closed flag of any day.
C15_ClosedDayRejected ==
    [][CreditToClosedDay =>
          \A d \in Days : /\ iftar_days'[d].raised = iftar_days[d].raised
                          /\ iftar_days'[d].closed = iftar_days[d].closed]_vars

\* ------------------------------------------------------------------------
\* C16: the target of a closed day is not changed
\* ------------------------------------------------------------------------

\* C16: when the admin's new target arrives for a campaign day whose
\* is_closed is 1, the step that handles it leaves target_portions of that
\* day as it was.
C16_ClosedTargetKept ==
    [][\A t \in Tasks :
          (tasks[t].pc = "ist" /\ iftar_days[tasks[t].day].closed = 1)
              => iftar_days'[tasks[t].day].target = iftar_days[tasks[t].day].target]_vars

\* ------------------------------------------------------------------------
\* C17: the tally's total and order
\* ------------------------------------------------------------------------

\* The people of the zf_add_entry calls made whose row is not inserted yet.
RECURSIVE PeopleInFlight(_)
PeopleInFlight(T) ==
    IF T = {} THEN 0
    ELSE LET t == CHOOSE x \in T : TRUE
         IN (IF tasks[t].pc = "zf_add" THEN tasks[t].amt ELSE 0) + PeopleInFlight(T \ {t})

\* The line zf_list_text_md shows for the call of zf_add_entry task t makes,
\* when it comes after the lines shown now.
LineOfCall(t) ==
    [no |-> Len(zf_entries) + 1,
     label |-> LabelStored(tasks[t].day),
     people |-> tasks[t].amt]

\* A step is the insert of a zf_add_entry call.
ZfInsertBy(t) == tasks[t].pc = "zf_add" /\ tasks'[t].pc # "zf_add"

\* C17: at every moment the total of zf_totals is the sum of the people of
\* all zf_add_entry calls that have inserted; and every zf_add_entry call
\* adds its line at the end of the list of zf_list_text_md, below the lines
\* of the calls before it, which stay as they are, while no other step
\* changes the list.
C17_TallyTotalAndOrder ==
    /\ [](zf_totals[1] + PeopleInFlight(Tasks) = credited.zf)
    /\ [][IF \E t \in Tasks : ZfInsertBy(t)
          THEN \E t \in Tasks :
                   /\ ZfInsertBy(t)
                   /\ zf_list_text_md'.lines = Append(zf_list_text_md.lines, LineOfCall(t))
          ELSE zf_list_text_md'.lines = zf_list_text_md.lines]_vars

\* Two entries of different people and labels are in the tally, entered one
\* after the other, and a third call has just inserted its row.
C17_Witness ==
    /\ Len(zf_entries) = 3
    /\ zf_entries[1].label # zf_entries[2].label
    /\ zf_entries[2].label # zf_entries[3].label
    /\ tasks[1].pc = "zf_note"
    /\ zf_totals[1] = TallyPeople

\* ------------------------------------------------------------------------
\* C18: a Stars payment for ZF enters the tally
\* ------------------------------------------------------------------------

\* C18: when successful_payment has handled a payment whose payload is
\* zf:people:N, it has appended an entry of N people to the tally.
C18_ZfPaymentEntered ==
    \A t \in Tasks :
        LET s == tasks[t]
        IN (s.h = "stars" /\ s.camp = "zf" /\ s.pc = "done")
               => /\ s.applied > 0
                  /\ \E i \in DOMAIN zf_entries : zf_entries[i].people = s.amt

\* ------------------------------------------------------------------------
\* C19: the tally is append-only
\* ------------------------------------------------------------------------

\* C19: every step of the program leaves the rows of zf_entries that exist
\* where and as they are, so the table only grows at its end, and the total
\* of zf_totals does not go down.
C19_AppendOnly ==
    [][/\ Len(zf_entries') >= Len(zf_entries)
       /\ SubSeq(zf_entries', 1, Len(zf_entries)) = zf_entries
       /\ zf_totals'[1] >= zf_totals[1]]_vars

\* A second entry, of other people than the first, has just been inserted
\* below the first.
C19_Witness ==
    /\ Len(zf_entries) = 2
    /\ zf_entries[1].people # zf_entries[2].people
    /\ tasks[1].pc = "zf_note"
    /\ tasks[1].amt = zf_entries[2].people

\* ------------------------------------------------------------------------
\* C20: every stored tally entry is valid
\* ------------------------------------------------------------------------

\* C20: every row of zf_entries, whichever handler inserted it, has people
\* above 0 and a label of 1 to 60 characters.
C20_EntriesValid ==
    \A i \in DOMAIN zf_entries :
        /\ zf_entries[i].people > 0
        /\ zf_entries[i].label >= 1
        /\ zf_entries[i].label <= LabelMax

\* ------------------------------------------------------------------------
\* C21: the Id counter takes concurrent credits whole
\* ------------------------------------------------------------------------

\* C21: once no kv_inc_int call is at work, id_raised_eur is its initial
\* value, 0, plus every amount the calls were made with, however their
\* reads and writes interleaved.
C21_IdIncrementsAtomic ==
    (\A t \in Tasks : tasks[t].pc \notin {"ki_get", "ki_set"})
        => kv.id_raised_eur = credited.id

\* ------------------------------------------------------------------------
\* C22: raised does not go down while a cycle is open
\* ------------------------------------------------------------------------

\* C22: no step of a credit, a target change or the date rollover lowers
\* the raised amount of an iftar day that is open before and after it, nor
\* the raised amount of the water batch that is current before and after it.
C22_RaisedMonotone ==
    [][/\ \A d \in Days :
              (iftar_days[d].closed = 0 /\ iftar_days'[d].closed = 0)
                  => iftar_days'[d].raised >= iftar_days[d].raised
       /\ kv'.water_batch = kv.water_batch
              => kv'.water_raised_eur >= kv.water_raised_eur]_vars

\* ------------------------------------------------------------------------
\* C23: a payment with a payload that cannot be used
\* ------------------------------------------------------------------------

\* successful_payment is handling a payment whose payload it cannot use.
BadPayment(t) == tasks[t].h = "stars" /\ tasks[t].raw \in {"missing", "nonint", "unknown"}

\* C23: a Stars payment whose payload is malformed or of an unknown type
\* leaves the ledger as it is, and when its handler has ended the admin has
\* been notified of the payment.
C23_BadPaymentAudited ==
    /\ [][(\E t \in Tasks : BadPayment(t))
             => (iftar_days' = iftar_days /\ kv' = kv /\ zf_entries' = zf_entries)]_vars
    /\ [](\A t \in Tasks :
             (BadPayment(t) /\ tasks[t].pc \in {"done", "failed"}) => tasks[t].noted)

\* ------------------------------------------------------------------------
\* C24: what a payment credits does not depend on the rate or the prices
\* ------------------------------------------------------------------------

\* The values eur_to_stars, iftar_portion_eur and zf_eur_per_person can have.
Settings ==
    [eur_to_stars : (1..MaxRate) \cup {DEFAULT_EUR_TO_STARS},
     iftar_portion_eur : (1..MaxRate) \cup {DEFAULT_IFTAR_PORTION_EUR},
     zf_eur_per_person : (1..MaxRate) \cup {DEFAULT_ZF_EUR_PER_PERSON}]

C25_CreditsAudited ==
    \A t \in Tasks :
        LET s == tasks[t]
        IN (s.pc = "done" /\ s.camp \in {"iftar", "water", "id"} /\ s.applied > 0)
               => /\ s.noted
                  /\ s.camp = "iftar" =>
                         \A d \in Days : iftar_days[d].closed = 1 => closures.iftar[d] > 0
                  /\ s.camp = "water" => Len(closures.water) >= kv.water_batch - 1

\* ------------------------------------------------------------------------
\* C26: only the admin changes the rate, the prices and the targets
\* ------------------------------------------------------------------------

\* The rate, the prices and the targets.
AdminSettings ==
    <<kv.eur_to_stars, kv.iftar_portion_eur, kv.zf_eur_per_person, kv.water_target_eur,
      [d \in Days |-> iftar_days[d].target]>>

\* C26: a step that changes eur_to_stars, iftar_portion_eur,
\* zf_eur_per_person, water_target_eur or the target of an iftar day is a
\* step of a handler working on a message of the admin; nothing a user who
\* is not the admin sends changes any of them.
C26_OnlyAdminSets ==
    [][AdminSettings' # AdminSettings
          => \E t \in Tasks : tasks[t].uid = ADMIN_ID /\ tasks[t].pc \in {"kv_set", "ist"}]_vars

\* The user has pressed an admin button and been refused, after reporting
\* a payment, and the admin has changed the water target.
C26_Witness ==
    /\ tasks[1].h = "cb_admin"
    /\ tasks[1].uid = 2
    /\ tasks[1].pc = "done"
    /\ credited.id > 0
    /\ kv.water_target_eur # DEFAULT_WATER_TARGET_EUR
    /\ PENDING[2].type = "none"


\* ------------------------------------------------------------------------
\* C27: reading a day is read-only
\* ------------------------------------------------------------------------

\* The handlers that only read a day through iftar_get.
DayReaders == {"report_day", "cb_campaign", "daily_report"}

\* C27: no step of a handler that reads a day through iftar_get
\* (cb_campaign, /report_day, the daily report) changes what is stored: the
\* table iftar_days, its set of rows included, the kv values and the zakat
\* entries are the same after the step, whatever day is read.
C27_ReadLeavesLedger ==
    [][(\E t \in Tasks : tasks'[t] # tasks[t] /\ tasks'[t].h \in DayReaders)
           => /\ iftar_days' = iftar_days
              /\ kv' = kv
              /\ zf_entries' = zf_entries]_vars


\* ------------------------------------------------------------------------
\* C28: every credit terminates
\* ------------------------------------------------------------------------

\* C28: a credit that has entered iftar_add_with_autoclose or
\* water_add_with_autoclose leaves it, whatever the ledger holds and
\* whatever the amount; and each time
\* a loop goes round again its measure has moved: the iftar loop is at a
\* later day, not past day 30, the water loop has strictly less left.
C28_CreditsTerminate ==
    /\ \A t \in Tasks : (tasks[t].pc \in CreditPcs) ~> (tasks[t].pc \notin CreditPcs)
    /\ [][\A t \in Tasks :
              /\ (tasks[t].pc = "ia_note" /\ tasks'[t].pc = "ia_loop")
                     => /\ tasks'[t].cur_day > tasks[t].cur_day
                        /\ tasks'[t].cur_day <= LastDay
              /\ (tasks[t].pc = "wa_note" /\ tasks'[t].pc = "wa_note" /\ tasks'[t] # tasks[t])
                     => /\ tasks'[t].raised < tasks[t].raised
                        /\ tasks'[t].raised >= 0]_vars

\* A credit has closed two cycles in a row and has returned.
C28_Witness ==
    \E t \in Tasks : /\ tasks[t].pc = "h_after"
                     /\ tasks[t].n_closed >= 2
                     /\ tasks[t].camp \in {"iftar", "water"}


\* ------------------------------------------------------------------------
\* C29: the date rollover conserves portions
\* ------------------------------------------------------------------------

\* The portions raised over all days.
RaisedSum == SumOver([d \in Days |-> iftar_days[d].raised], Days)

\* C29: the transfer of a rollover that has found prev_day not closed with
\* raised > 0 leaves the sum of raised_portions over all days as it was, and
\* new_day has gained exactly what prev_day has lost, on every date: also
\* when prev_day and new_day are both day 30.
C29_RolloverConserves ==
    [][\A t \in Tasks :
           (tasks[t].pc = "ro_move" /\ tasks'[t].pc = "ro_note")
               => /\ RaisedSum' = RaisedSum
                  /\ iftar_days'[tasks[t].next_day].raised
                         = iftar_days[tasks[t].next_day].raised + tasks[t].raised]_vars


\* ------------------------------------------------------------------------
\* C30: one transfer per local date
\* ------------------------------------------------------------------------

\* C30: on one calendar date the rollover applies its transfer from
\* prev_day to new_day at most once, however many scheduler ticks run on
\* that date and whether or not a tick's admin notification fails.
C30_OneTransferPerDate ==
    \A d \in Days : closures.moves[d] <= 1


\* ------------------------------------------------------------------------
\* C31: closed is final
\* ------------------------------------------------------------------------

\* Day d has been closed by an operation that is over: its closure has been
\* notified, which a credit does after it has closed d and carried to d + 1,
\* and the steps the credit takes after that touch later days only.  (Day 30
\* is carried into itself, so no operation ends with it closed.)
ClosedBefore(d) == d < LastDay /\ closures.iftar[d] > 0

\* C31: with operations run one at a time, a day that an operation has left
\* closed is closed whenever no operation is running: no later credit, to
\* this day or an earlier one, reopens it.
C31_ClosedIsFinal ==
    Quiet => \A d \in Days : ClosedBefore(d) => iftar_days[d].closed = 1


\* ------------------------------------------------------------------------
\* C32: targets, rate and prices stay above zero
\* ------------------------------------------------------------------------

\* A stored setting is a number above 0.
AboveZero(v) == v # NaN /\ v > 0

AdminSetTypes == {"admin_set_int", "admin_set_price", "admin_set_iftar_target"}

\* C32: the rate, the two prices, the water target and the target of every
\* day are above 0 in every state; what an admin set operation stores is a
\* number above 0 that was typed; and an operation given anything else ends
\* with the stored values as they were and the prompt still pending.
C32_SettingsAboveZero ==
    /\ [](/\ AboveZero(kv.eur_to_stars)
          /\ AboveZero(kv.iftar_portion_eur)
          /\ AboveZero(kv.zf_eur_per_person)
          /\ AboveZero(kv.water_target_eur)
          /\ \A d \in Days : AboveZero(iftar_days[d].target))
    /\ [](\A t \in Tasks :
              (tasks[t].st \in AdminSetTypes /\ tasks[t].pc \in {"kv_set", "ist"})
                  => tasks[t].raw = "num" /\ tasks[t].amt > 0)
    /\ [][\A t \in Tasks :
              (tasks[t].pc = "idle" /\ tasks'[t].st \in AdminSetTypes /\ tasks'[t].pc = "done")
                  => /\ AdminSettings' = AdminSettings
                     /\ PENDING' = PENDING
                     /\ PENDING[tasks'[t].uid].type = tasks'[t].st]_vars


\* ------------------------------------------------------------------------
\* C33: a credit to day D leaves the days before D alone
\* ------------------------------------------------------------------------

\* The steps inside iftar_add_with_autoclose.
IftarPcs == {"ia_get", "ia_put", "ia_loop", "ia_close", "ia_next", "ia_carry", "ia_note"}

\* C33: no step of iftar_add_with_autoclose(D, n), for any day D and any
\* amount n, changes the target, the raised amount or the closed flag of a
\* day before D.
C33_EarlierDaysKept ==
    [][\A t \in Tasks :
           (tasks[t].pc \in IftarPcs /\ tasks'[t] # tasks[t])
               => \A d \in Days : d < tasks[t].day => iftar_days'[d] = iftar_days[d]]_vars

\* A credit to a day has closed it and carried on, and has returned, while
\* an earlier day holds portions.
C33_Witness ==
    \E t \in Tasks : /\ tasks[t].pc = "h_after"
                     /\ tasks[t].camp = "iftar"
                     /\ tasks[t].n_closed >= 1
                     /\ \E d \in Days : d < tasks[t].day /\ iftar_days[d].raised > 0


\* ------------------------------------------------------------------------
\* C34: campaigns are independent
\* ------------------------------------------------------------------------

\* The steps inside water_add_with_autoclose.
WaterPcs == {"wa_batch", "wa_target", "wa_raised", "wa_note", "wa_set_batch", "wa_set_raised"}

WaterKept == kv'.water_batch = kv.water_batch /\ kv'.water_raised_eur = kv.water_raised_eur

\* C34: a step of a water credit leaves every iftar day, id_raised_eur and
\* the tally as they were; a step of an iftar credit leaves water_batch,
\* water_raised_eur, id_raised_eur and the tally as they were; a step of an
\* Id credit or of a tally append leaves every iftar day, water_batch and
\* water_raised_eur as they were.
C34_CampaignsIndependent ==
    [][\A t \in Tasks :
           tasks'[t] # tasks[t]
               => /\ tasks[t].pc \in WaterPcs
                         => /\ iftar_days' = iftar_days
                            /\ kv'.id_raised_eur = kv.id_raised_eur
                            /\ zf_entries' = zf_entries
                  /\ tasks[t].pc \in IftarPcs
                         => /\ WaterKept
                            /\ kv'.id_raised_eur = kv.id_raised_eur
                            /\ zf_entries' = zf_entries
                  /\ tasks[t].pc \in {"ki_get", "ki_set", "zf_add"}
                         => /\ iftar_days' = iftar_days
                            /\ WaterKept]_vars

\* All four campaigns have been credited and no handler is running.
C34_Witness ==
    /\ Quiet
    /\ \E d \in Days : iftar_days[d].raised > 0
    /\ kv.water_raised_eur > 0
    /\ kv.id_raised_eur > 0
    /\ Len(zf_entries) > 0


\* ------------------------------------------------------------------------
\* C35: individual reservations are never double-booked
\* ------------------------------------------------------------------------

\* C35: two calls of ind_iftar_reserve_day never return the same day and
\* two calls of ind_water_reserve_batch never return the same batch, in
\* whatever order and interleaving the two handlers run.
C35_NoDoubleBooking ==
    \A a, b \in Tasks :
        (/\ a # b
         /\ tasks[a].h = "cb_ind_mark_paid" /\ tasks[a].pc = "done"
         /\ tasks[b].h = "cb_ind_mark_paid" /\ tasks[b].pc = "done"
         /\ tasks[a].camp = tasks[b].camp)
            => tasks[a].day # tasks[b].day


\* C36: when a user whose pending prompt is mark_iftar_portions,
\* mark_water_eur, id_wait_amount or zf_wait_code sends text that is not a
\* number greater than 0 (for zf_wait_code: not a valid ZF code), the handler
\* ends at once, the ledger and the tally are as they were and the same
\* pending intent remains.
SelfReportTypes == AmountTypes \cup {"zf_wait_code"}

InvalidFor(type, msg) ==
    IF type = "zf_wait_code"
    THEN ~(msg.kind = "code" /\ msg.n > 0 /\ msg.n <= 999)
    ELSE ~(msg.kind = "num" /\ msg.n > 0)

C36_InvalidInputKept ==
    [][\A t \in Tasks, u \in Users, msg \in RetryMessages :
           (/\ PENDING[u].type \in SelfReportTypes
            /\ InvalidFor(PENDING[u].type, msg)
            /\ RouterAmount(t, u, msg) \/ RouterZfCode(t, u, msg))
               => /\ tasks'[t].pc = "done"
                  /\ iftar_days' = iftar_days
                  /\ kv' = kv
                  /\ zf_entries' = zf_entries
                  /\ credited' = credited
                  /\ PENDING' = PENDING]_vars

C36_Witness ==
    /\ tasks[1].h = "router" /\ tasks[1].pc = "done"
    /\ tasks[1].st = "mark_water_eur" /\ tasks[1].raw = "label"
    /\ PENDING[2].type = "mark_water_eur"
    /\ credited.water > 0

====
